---- MODULE Spec2Model ----
(***************************************************************************)
(* The collectd powerdns plugin (src/powerdns.c): configuration of the     *)
(* target list, the collection cycle, the datagram and stream transports   *)
(* and the two reply decoders.                                             *)
(*                                                                         *)
(* A C string is a sequence of one-character strings that ends with NUL;   *)
(* the null pointer is the empty sequence.  A pointer into a              *)
(* buffer is a 1-based index, 0 being the null pointer.                    *)
(***************************************************************************)
EXTENDS Integers, Sequences, FiniteSets, TLC

VARIABLES list, local_sockpath, sockfile, phase, th, conf

vars == << list, local_sockpath, sockfile, phase, th, conf >>

\* ------------------------------------------------------------------ bounds
\* Targets the configuration may put on the list.
MaxTargets == 1
\* Top-level options one powerdns_config call receives.
MaxOptions == 1
\* Bytes one recv on the datagram socket may deliver.
MaxDgramLen == 2
\* Bytes the stream peer sends, in chunks of any size, before it closes or
\* fails.
MaxStreamLen == 3
\* Length of the reply buffers handed to the comma-pair decoder on its own.
MaxServerBuf == 8
\* Length of the reply buffers handed to the positional decoder on its own.
MaxRecursorBuf == 3
\* Length of the commands handed to the positional decoder on its own.
MaxCommandLen == 5
\* Length of the values of the statistics handed to submit.
MaxValueLen == 2
\* Children of the <Plugin powerdns> block handed to powerdns_config on its
\* own.
MaxBlocks == 3

\* ------------------------------------------------------- program constants
NUL == "NUL"
NULL == << >>
\* sizeof (temp)
TEMP_SIZE == 4096
SOCK_STREAM == "SOCK_STREAM"
SOCK_DGRAM == "SOCK_DGRAM"

SERVER_SOCKET ==
  << "/", "v", "a", "r", "/", "r", "u", "n", "/", "p", "d", "n", "s", ".",
     "c", "o", "n", "t", "r", "o", "l", "s", "o", "c", "k", "e", "t", NUL >>
SERVER_COMMAND == << "S", "H", "O", "W", " ", "*", NUL >>
RECURSOR_SOCKET ==
  << "/", "v", "a", "r", "/", "r", "u", "n", "/", "p", "d", "n", "s", "_",
     "r", "e", "c", "u", "r", "s", "o", "r", ".", "c", "o", "n", "t", "r",
     "o", "l", "s", "o", "c", "k", "e", "t", NUL >>
RECURSOR_COMMAND ==
  <<"g", "e", "t", " ", "a", "l", "l", "-", "o", "u", "t", "q", "u", "e",
     "r", "i", "e", "s", " ", "a", "n", "s", "w", "e", "r", "s", "0", "-",
     "1", " ", "a", "n", "s", "w", "e", "r", "s", "1", "0", "0", "-", "1",
     "0", "0", "0", " ", "a", "n", "s", "w", "e", "r", "s", "1", "0", "-",
     "1", "0", "0", " ", "a", "n", "s", "w", "e", "r", "s", "1", "-", "1",
     "0", " ", "a", "n", "s", "w", "e", "r", "s", "-", "s", "l", "o", "w",
     " ", "c", "a", "c", "h", "e", "-", "e", "n", "t", "r", "i", "e", "s",
     " ", "c", "a", "c", "h", "e", "-", "h", "i", "t", "s", " ", "c", "a",
     "c", "h", "e", "-", "m", "i", "s", "s", "e", "s", " ", "c", "h", "a",
     "i", "n", "-", "r", "e", "s", "e", "n", "d", "s", " ", "c", "l", "i",
     "e", "n", "t", "-", "p", "a", "r", "s", "e", "-", "e", "r", "r", "o",
     "r", "s", " ", "c", "o", "n", "c", "u", "r", "r", "e", "n", "t", "-",
     "q", "u", "e", "r", "i", "e", "s", " ", "d", "l", "g", "-", "o", "n",
     "l", "y", "-", "d", "r", "o", "p", "s", " ", "i", "p", "v", "6", "-",
     "o", "u", "t", "q", "u", "e", "r", "i", "e", "s", " ", "n", "e", "g",
     "c", "a", "c", "h", "e", "-", "e", "n", "t", "r", "i", "e", "s", " ",
     "n", "o", "e", "r", "r", "o", "r", "-", "a", "n", "s", "w", "e", "r",
     "s", " ", "n", "s", "s", "e", "t", "-", "i", "n", "v", "a", "l", "i",
     "d", "a", "t", "i", "o", "n", "s", " ", "n", "s", "s", "p", "e", "e",
     "d", "s", "-", "e", "n", "t", "r", "i", "e", "s", " ", "n", "x", "d",
     "o", "m", "a", "i", "n", "-", "a", "n", "s", "w", "e", "r", "s", " ",
     "o", "u", "t", "g", "o", "i", "n", "g", "-", "t", "i", "m", "e", "o",
     "u", "t", "s", " ", "q", "a", "-", "l", "a", "t", "e", "n", "c", "y",
     " ", "q", "u", "e", "s", "t", "i", "o", "n", "s", " ", "r", "e", "s",
     "o", "u", "r", "c", "e", "-", "l", "i", "m", "i", "t", "s", " ", "s",
     "e", "r", "v", "e", "r", "-", "p", "a", "r", "s", "e", "-", "e", "r",
     "r", "o", "r", "s", " ", "s", "e", "r", "v", "f", "a", "i", "l", "-",
     "a", "n", "s", "w", "e", "r", "s", " ", "s", "p", "o", "o", "f", "-",
     "p", "r", "e", "v", "e", "n", "t", "s", " ", "s", "y", "s", "-", "m",
     "s", "e", "c", " ", "t", "c", "p", "-", "c", "l", "i", "e", "n", "t",
     "-", "o", "v", "e", "r", "f", "l", "o", "w", " ", "t", "c", "p", "-",
     "o", "u", "t", "q", "u", "e", "r", "i", "e", "s", " ", "t", "c", "p",
     "-", "q", "u", "e", "s", "t", "i", "o", "n", "s", " ", "t", "h", "r",
     "o", "t", "t", "l", "e", "d", "-", "o", "u", "t", " ", "t", "h", "r",
     "o", "t", "t", "l", "e", "d", "-", "o", "u", "t", "q", "u", "e", "r",
     "i", "e", "s", " ", "t", "h", "r", "o", "t", "t", "l", "e", "-", "e",
     "n", "t", "r", "i", "e", "s", " ", "u", "n", "a", "u", "t", "h", "o",
     "r", "i", "z", "e", "d", "-", "t", "c", "p", " ", "u", "n", "a", "u",
     "t", "h", "o", "r", "i", "z", "e", "d", "-", "u", "d", "p", " ", "u",
     "n", "e", "x", "p", "e", "c", "t", "e", "d", "-", "p", "a", "c", "k",
     "e", "t", "s", " ", "u", "n", "r", "e", "a", "c", "h", "a", "b", "l",
     "e", "s", " ", "u", "s", "e", "r", "-", "m", "s", "e", "c", NUL >>
\* LOCALSTATEDIR"/run/"PACKAGE_NAME"-powerdns", with the usual build values.
PDNS_LOCAL_SOCKPATH ==
  << "/", "v", "a", "r", "/", "r", "u", "n", "/", "c", "o", "l", "l", "e",
     "c", "t", "d", "-", "p", "o", "w", "e", "r", "d", "n", "s", NUL >>
\* sizeof (((struct sockaddr_un *)0)->sun_path)
UNIX_PATH_MAX == 108

Threads == {1, 2}

\* ------------------------------------------------------------- C strings
Min(a, b) == IF a < b THEN a ELSE b

RECURSIVE SeqsUpTo(_, _)
\* The sequences over alphabet A of length at most n.
SeqsUpTo(A, n) ==
  IF n = 0 THEN { << >> }
  ELSE LET S == SeqsUpTo(A, n - 1)
       IN  S \cup { Append(s, a) : s \in { x \in S : Len(x) = n - 1 }, a \in A }

\* The C string holding the characters s.
CString(s) == Append(s, NUL)

\* strspn (buf + p, delim): the characters at p that are delimiters.
Strspn(buf, p, delim) ==
  LET Stop(i) == buf[i] = NUL \/ buf[i] \notin delim
  IN  (CHOOSE i \in p .. Len(buf) :
         Stop(i) /\ \A j \in p .. i - 1 : ~Stop(j)) - p

\* strcspn (buf + p, delim): the characters at p up to a delimiter or the NUL.
Strcspn(buf, p, delim) ==
  LET Stop(i) == buf[i] = NUL \/ buf[i] \in delim
  IN  (CHOOSE i \in p .. Len(buf) :
         Stop(i) /\ \A j \in p .. i - 1 : ~Stop(j)) - p

\* strlen (buf + p)
Strlen(buf, p) == Strcspn(buf, p, {})

\* The characters of the C string at p, without its NUL.
StrAt(buf, p) == SubSeq(buf, p, p + Strlen(buf, p) - 1)

\* Strchr as strrchr: the place of the last c in the string at p, or 0.
StrchrLast(buf, p, c) ==
  LET at == { i \in p .. p + Strlen(buf, p) - 1 : buf[i] = c }
  IN  IF at = {} THEN 0 ELSE CHOOSE i \in at : \A j \in at : j <= i

\* strchr (buf + p, c): the place of the first c in the string at p, or 0.
Strchr(buf, p, c) ==
  LET n == Strcspn(buf, p, {c})
  IN  IF buf[p + n] = c THEN p + n ELSE 0

\* strtok_r (s, delim, &save) on buffer buf, s = 0 for a null first argument:
\* the token found (0 for none), the new save pointer and the buffer, in which
\* the delimiter that ends the token is overwritten by NUL.
StrtokR(buf, s, save, delim) ==
  LET s0  == IF s = 0 THEN save ELSE s
      s1  == s0 + Strspn(buf, s0, delim)
      end == s1 + Strcspn(buf, s1, delim)
  IN  IF buf[s1] = NUL THEN [tok |-> 0, save |-> s1, buf |-> buf]
      ELSE IF buf[end] = NUL THEN [tok |-> s1, save |-> end, buf |-> buf]
      ELSE [tok |-> s1, save |-> end + 1, buf |-> [buf EXCEPT ![end] = NUL]]

\* submit (plugin_instance, pdns_type, value), as the call made: calls is the
\* sequence of calls so far.
submit(calls, plugin_instance, pdns_type, value) ==
  Append(calls, [plugin_instance |-> plugin_instance,
                 pdns_type |-> pdns_type, value |-> value])

\* ---------------------------------------------------------- reply decoders
RECURSIVE ServerLoopSkipsBare(_, _, _, _, _)
\* ServerLoop with continue in the place of break for a token without "=".
ServerLoopSkipsBare(instance, buf, dummy, saveptr, calls) ==
  LET r == StrtokR(buf, dummy, saveptr, {","})
      key == r.tok
  IN  IF key = 0 THEN calls
      ELSE LET value == Strchr(r.buf, key, "=")
           IN  IF value = 0
               THEN ServerLoopSkipsBare(instance, r.buf, 0, r.save, calls)
               ELSE LET b == [r.buf EXCEPT ![value] = NUL]
                    IN  IF b[value + 1] = NUL
                        THEN ServerLoopSkipsBare(instance, b, 0, r.save, calls)
                        ELSE ServerLoopSkipsBare(instance, b, 0, r.save,
                               submit(calls, instance, StrAt(b, key),
                                      StrAt(b, value + 1)))

RECURSIVE ServerLoopSubmitsEmpty(_, _, _, _, _)
\* ServerLoop without the test of value[0] == 0.
ServerLoopSubmitsEmpty(instance, buf, dummy, saveptr, calls) ==
  LET r == StrtokR(buf, dummy, saveptr, {","})
      key == r.tok
  IN  IF key = 0 THEN calls
      ELSE LET value == Strchr(r.buf, key, "=")
           IN  IF value = 0 THEN calls
               ELSE LET b == [r.buf EXCEPT ![value] = NUL]
                    IN  ServerLoopSubmitsEmpty(instance, b, 0, r.save,
                          submit(calls, instance, StrAt(b, key),
                                 StrAt(b, value + 1)))

RECURSIVE ServerLoop(_, _, _, _, _)
\* The while loop of powerdns_read_server: the calls of submit it makes.
ServerLoop(instance, buf, dummy, saveptr, calls) ==
  LET r == StrtokR(buf, dummy, saveptr, {","})
      key == r.tok
  IN  IF key = 0 THEN calls
      ELSE LET value == Strchr(r.buf, key, "=")
           IN  IF value = 0 THEN calls
               ELSE LET b == [r.buf EXCEPT ![value] = NUL]
                    IN  IF b[value + 1] = NUL
                        THEN ServerLoop(instance, b, 0, r.save, calls)
                        ELSE ServerLoop(instance, b, 0, r.save,
                               submit(calls, instance, StrAt(b, key),
                                      StrAt(b, value + 1)))

RECURSIVE RecursorLoop(_, _, _, _, _, _, _)
\* The while loop of powerdns_read_recursor over the reply buffer and
\* keys_list, the copy of the command: the calls of submit it makes.
RecursorLoop(instance, buf, dummy, value_saveptr, keys, key_saveptr, calls) ==
  LET v == StrtokR(buf, dummy, value_saveptr, {" ", "\t", "\n", "\r"})
  IN  IF v.tok = 0 THEN calls
      ELSE LET k == StrtokR(keys, 0, key_saveptr, {" ", "\t"})
           IN  IF k.tok = 0 THEN calls
               ELSE RecursorLoop(instance, v.buf, 0, v.save, k.buf, k.save,
                      submit(calls, instance, StrAt(k.buf, k.tok),
                             StrAt(v.buf, v.tok)))

\* RecursorDecode without the strtok_r that skips the verb.
RecursorDecodeKeepsVerb(instance, buf, command) ==
  RecursorLoop(instance, buf, 1, 0, command, 1, << >>)

\* powerdns_read_recursor after the strdup of the command: the verb is
\* skipped, then the loop runs.
RecursorDecode(instance, buf, command) ==
  LET skip == StrtokR(command, 1, 0, {" ", "\t"})
  IN  RecursorLoop(instance, buf, 1, 0, skip.buf, skip.save, << >>)

\* sstrncpy (dest, src, n): at most n - 1 characters of src, and a NUL.
sstrncpy(src, n) ==
  CString(SubSeq(src, 1, Min(Strlen(src, 1), n - 1)))

\* ------------------------------------------------------------------ submit
\* One statname_lookup_t: name, type and type_instance, NULL for none.
Entry(name, type, type_instance) ==
  [name |-> name, type |-> type, type_instance |-> type_instance]

\* statname_lookup_t lookup_table[]
lookup_table ==
  << Entry(<< "r", "e", "c", "u", "r", "s", "i", "n", "g", "-", "q", "u",
           "e", "s", "t", "i", "o", "n", "s", NUL >>,
           << "d", "n", "s", "_", "q", "u", "e", "s", "t", "i", "o", "n", NUL >>,
           << "r", "e", "c", "u", "r", "s", "e", NUL >>),
     Entry(<< "t", "c", "p", "-", "q", "u", "e", "r", "i", "e", "s", NUL
           >>,
           << "d", "n", "s", "_", "q", "u", "e", "s", "t", "i", "o", "n", NUL >>,
           << "t", "c", "p", NUL >>),
     Entry(<< "u", "d", "p", "-", "q", "u", "e", "r", "i", "e", "s", NUL
           >>,
           << "d", "n", "s", "_", "q", "u", "e", "s", "t", "i", "o", "n", NUL >>,
           << "u", "d", "p", NUL >>),
     Entry(<< "r", "e", "c", "u", "r", "s", "i", "n", "g", "-", "a", "n",
           "s", "w", "e", "r", "s", NUL >>,
           << "d", "n", "s", "_", "a", "n", "s", "w", "e", "r", NUL >>,
           << "r", "e", "c", "u", "r", "s", "e", NUL >>),
     Entry(<< "t", "c", "p", "-", "a", "n", "s", "w", "e", "r", "s", NUL
           >>,
           << "d", "n", "s", "_", "a", "n", "s", "w", "e", "r", NUL >>,
           << "t", "c", "p", NUL >>),
     Entry(<< "u", "d", "p", "-", "a", "n", "s", "w", "e", "r", "s", NUL
           >>,
           << "d", "n", "s", "_", "a", "n", "s", "w", "e", "r", NUL >>,
           << "u", "d", "p", NUL >>),
     Entry(<< "p", "a", "c", "k", "e", "t", "c", "a", "c", "h", "e", "-",
           "h", "i", "t", NUL >>,
           << "c", "a", "c", "h", "e", "_", "r", "e", "s", "u", "l", "t", NUL >>,
           << "p", "a", "c", "k", "e", "t", "-", "h", "i", "t", NUL >>),
     Entry(<< "p", "a", "c", "k", "e", "t", "c", "a", "c", "h", "e", "-",
           "m", "i", "s", "s", NUL >>,
           << "c", "a", "c", "h", "e", "_", "r", "e", "s", "u", "l", "t", NUL >>,
           << "p", "a", "c", "k", "e", "t", "-", "m", "i", "s", "s", NUL >>),
     Entry(<< "p", "a", "c", "k", "e", "t", "c", "a", "c", "h", "e", "-",
           "s", "i", "z", "e", NUL >>,
           << "c", "a", "c", "h", "e", "_", "s", "i", "z", "e", NUL >>,
           << "p", "a", "c", "k", "e", "t", NUL >>),
     Entry(<< "q", "u", "e", "r", "y", "-", "c", "a", "c", "h", "e", "-",
           "h", "i", "t", NUL >>,
           << "c", "a", "c", "h", "e", "_", "r", "e", "s", "u", "l", "t", NUL >>,
           << "q", "u", "e", "r", "y", "-", "h", "i", "t", NUL >>),
     Entry(<< "q", "u", "e", "r", "y", "-", "c", "a", "c", "h", "e", "-",
           "m", "i", "s", "s", NUL >>,
           << "c", "a", "c", "h", "e", "_", "r", "e", "s", "u", "l", "t", NUL >>,
           << "q", "u", "e", "r", "y", "-", "m", "i", "s", "s", NUL >>),
     Entry(<< "l", "a", "t", "e", "n", "c", "y", NUL >>,
           << "l", "a", "t", "e", "n", "c", "y", NUL >>,
           NULL),
     Entry(<< "c", "o", "r", "r", "u", "p", "t", "-", "p", "a", "c", "k",
           "e", "t", "s", NUL >>,
           << "i", "o", "_", "p", "a", "c", "k", "e", "t", "s", NUL >>,
           << "c", "o", "r", "r", "u", "p", "t", NUL >>),
     Entry(<< "d", "e", "f", "e", "r", "r", "e", "d", "-", "c", "a", "c",
           "h", "e", "-", "i", "n", "s", "e", "r", "t", "s", NUL >>,
           << "c", "o", "u", "n", "t", "e", "r", NUL >>,
           << "c", "a", "c", "h", "e", "-", "d", "e", "f", "e", "r", "r", "e",
           "d", "_", "i", "n", "s", "e", "r", "t", NUL >>),
     Entry(<< "d", "e", "f", "e", "r", "r", "e", "d", "-", "c", "a", "c",
           "h", "e", "-", "l", "o", "o", "k", "u", "p", NUL >>,
           << "c", "o", "u", "n", "t", "e", "r", NUL >>,
           << "c", "a", "c", "h", "e", "-", "d", "e", "f", "e", "r", "r", "e",
           "d", "_", "l", "o", "o", "k", "u", "p", NUL >>),
     Entry(<< "q", "s", "i", "z", "e", "-", "a", NUL >>,
           << "c", "a", "c", "h", "e", "_", "s", "i", "z", "e", NUL >>,
           << "a", "n", "s", "w", "e", "r", "s", NUL >>),
     Entry(<< "q", "s", "i", "z", "e", "-", "q", NUL >>,
           << "c", "a", "c", "h", "e", "_", "s", "i", "z", "e", NUL >>,
           << "q", "u", "e", "s", "t", "i", "o", "n", "s", NUL >>),
     Entry(<< "s", "e", "r", "v", "f", "a", "i", "l", "-", "p", "a", "c",
           "k", "e", "t", "s", NUL >>,
           << "i", "o", "_", "p", "a", "c", "k", "e", "t", "s", NUL >>,
           << "s", "e", "r", "v", "f", "a", "i", "l", NUL >>),
     Entry(<< "t", "i", "m", "e", "d", "o", "u", "t", "-", "p", "a", "c",
           "k", "e", "t", "s", NUL >>,
           << "i", "o", "_", "p", "a", "c", "k", "e", "t", "s", NUL >>,
           << "t", "i", "m", "e", "o", "u", "t", NUL >>),
     Entry(<< "u", "d", "p", "4", "-", "a", "n", "s", "w", "e", "r", "s",
           NUL >>,
           << "d", "n", "s", "_", "a", "n", "s", "w", "e", "r", NUL >>,
           << "u", "d", "p", "4", NUL >>),
     Entry(<< "u", "d", "p", "4", "-", "q", "u", "e", "r", "i", "e", "s",
           NUL >>,
           << "d", "n", "s", "_", "q", "u", "e", "s", "t", "i", "o", "n", NUL >>,
           << "q", "u", "e", "r", "i", "e", "s", "-", "u", "d", "p", "4", NUL >>),
     Entry(<< "u", "d", "p", "6", "-", "a", "n", "s", "w", "e", "r", "s",
           NUL >>,
           << "d", "n", "s", "_", "a", "n", "s", "w", "e", "r", NUL >>,
           << "u", "d", "p", "6", NUL >>),
     Entry(<< "u", "d", "p", "6", "-", "q", "u", "e", "r", "i", "e", "s",
           NUL >>,
           << "d", "n", "s", "_", "q", "u", "e", "s", "t", "i", "o", "n", NUL >>,
           << "q", "u", "e", "r", "i", "e", "s", "-", "u", "d", "p", "6", NUL >>),
     Entry(<< "n", "o", "e", "r", "r", "o", "r", "-", "a", "n", "s", "w",
           "e", "r", "s", NUL >>,
           << "d", "n", "s", "_", "r", "c", "o", "d", "e", NUL >>,
           << "N", "O", "E", "R", "R", "O", "R", NUL >>),
     Entry(<< "n", "x", "d", "o", "m", "a", "i", "n", "-", "a", "n", "s",
           "w", "e", "r", "s", NUL >>,
           << "d", "n", "s", "_", "r", "c", "o", "d", "e", NUL >>,
           << "N", "X", "D", "O", "M", "A", "I", "N", NUL >>),
     Entry(<< "s", "e", "r", "v", "f", "a", "i", "l", "-", "a", "n", "s",
           "w", "e", "r", "s", NUL >>,
           << "d", "n", "s", "_", "r", "c", "o", "d", "e", NUL >>,
           << "S", "E", "R", "V", "F", "A", "I", "L", NUL >>),
     Entry(<< "s", "y", "s", "-", "m", "s", "e", "c", NUL >>,
           << "c", "p", "u", NUL >>,
           << "s", "y", "s", "t", "e", "m", NUL >>),
     Entry(<< "u", "s", "e", "r", "-", "m", "s", "e", "c", NUL >>,
           << "c", "p", "u", NUL >>,
           << "u", "s", "e", "r", NUL >>),
     Entry(<< "q", "a", "-", "l", "a", "t", "e", "n", "c", "y", NUL >>,
           << "l", "a", "t", "e", "n", "c", "y", NUL >>,
           NULL),
     Entry(<< "c", "a", "c", "h", "e", "-", "e", "n", "t", "r", "i", "e",
           "s", NUL >>,
           << "c", "a", "c", "h", "e", "_", "s", "i", "z", "e", NUL >>,
           NULL),
     Entry(<< "c", "a", "c", "h", "e", "-", "h", "i", "t", "s", NUL >>,
           << "c", "a", "c", "h", "e", "_", "r", "e", "s", "u", "l", "t", NUL >>,
           << "h", "i", "t", NUL >>),
     Entry(<< "c", "a", "c", "h", "e", "-", "m", "i", "s", "s", "e", "s",
           NUL >>,
           << "c", "a", "c", "h", "e", "_", "r", "e", "s", "u", "l", "t", NUL >>,
           << "m", "i", "s", "s", NUL >>),
     Entry(<< "q", "u", "e", "s", "t", "i", "o", "n", "s", NUL >>,
           << "d", "n", "s", "_", "q", "t", "y", "p", "e", NUL >>,
           << "t", "o", "t", "a", "l", NUL >>) >>

\* STATIC_ARRAY_SIZE (lookup_table)
lookup_table_length == Len(lookup_table)

\* LookupIndex that stops at the last entry when no name is equal.
LookupIndexOrLast(pdns_type) ==
  LET hits == { i \in 0 .. lookup_table_length - 1 :
                  StrAt(lookup_table[i + 1].name, 1) = pdns_type }
  IN  IF hits = {} THEN lookup_table_length - 1
      ELSE CHOOSE i \in hits : \A j \in hits : i <= j

\* LookupIndex one entry further.
LookupIndexNext(pdns_type) ==
  LET hits == { i \in 0 .. lookup_table_length - 1 :
                  StrAt(lookup_table[i + 1].name, 1) = pdns_type }
  IN  IF hits = {} THEN lookup_table_length
      ELSE Min((CHOOSE i \in hits : \A j \in hits : i <= j) + 1,
               lookup_table_length - 1)

\* The value of i after the for loop of submit: the index, from 0, of the
\* first entry whose name strcmp finds equal to pdns_type, and
\* lookup_table_length when there is none.
LookupIndex(pdns_type) ==
  LET hits == { i \in 0 .. lookup_table_length - 1 :
                  StrAt(lookup_table[i + 1].name, 1) = pdns_type }
  IN  IF hits = {} THEN lookup_table_length
      ELSE CHOOSE i \in hits : \A j \in hits : i <= j

DS_TYPE_COUNTER == "DS_TYPE_COUNTER"
DS_TYPE_GAUGE == "DS_TYPE_GAUGE"

\* What plugin_get_ds (type) may answer: NULL, or a data set with ds_num data
\* sources, the first of type ds[0].type.
DataSets ==
  { NULL } \cup { [ds_num |-> n, type |-> ty] :
                    n \in {1, 2}, ty \in {DS_TYPE_COUNTER, DS_TYPE_GAUGE} }

\* isspace, but for the vertical tab, which no string of the runs holds.
IsSpace == {" ", "\t", "\n", "\f", "\r"}

DecDigits == << "0", "1", "2", "3", "4", "5", "6", "7", "8", "9" >>
HexDigits == DecDigits \o << "a", "b", "c", "d", "e", "f" >>
HexUpper == << "A", "B", "C", "D", "E", "F" >>

\* The digits of base b, as characters.
DigitsOf(b) ==
  { HexDigits[i] : i \in 1 .. b } \cup
  (IF b = 16 THEN { HexUpper[i] : i \in 1 .. 6 } ELSE {})

\* The value of digit c.
DigitVal(c) ==
  IF \E i \in 1 .. 6 : HexUpper[i] = c
  THEN 9 + (CHOOSE i \in 1 .. 6 : HexUpper[i] = c)
  ELSE (CHOOSE i \in 1 .. 16 : HexDigits[i] = c) - 1

RECURSIVE Number(_, _)
\* The number the digits d write in base b.
Number(d, b) ==
  IF d = << >> THEN 0
  ELSE Number(SubSeq(d, 1, Len(d) - 1), b) * b + DigitVal(d[Len(d)])

\* strtoll (value, &endptr, 0) for the characters value: consumed is
\* endptr - value, 0 when no conversion is made.  White space is skipped, a
\* sign taken, and the base told from the prefix: 0x for 16, 0 for 8, 10
\* otherwise.  The values of the runs stay far below LLONG_MAX.
Strtoll(value) ==
  LET b == CString(value)
      p0 == 1 + Strspn(b, 1, IsSpace)
      neg == b[p0] = "-"
      p1 == IF b[p0] \in {"+", "-"} THEN p0 + 1 ELSE p0
      hex == /\ b[p1] = "0"
             /\ b[p1 + 1] \in {"x", "X"}
             /\ b[p1 + 2] \in DigitsOf(16)
      base == IF hex THEN 16 ELSE IF b[p1] = "0" THEN 8 ELSE 10
      start == IF hex THEN p1 + 2 ELSE p1
      n == Strspn(b, start, DigitsOf(base))
      num == Number(SubSeq(b, start, start + n - 1), base)
  IN  IF n = 0 THEN [consumed |-> 0, value |-> 0]
      ELSE [consumed |-> start + n - 1,
            value |-> IF neg THEN 0 - num ELSE num]

\* Strtod as atof: what is not a number is read as 0, and endptr never left
\* at value.
StrtodNoCheck(value) ==
  [consumed |-> Len(value) + 1,
   value |-> [neg |-> FALSE, mant |-> 0, scale |-> 0]]

\* strtod (value, &endptr) for the characters value, which hold no letter:
\* white space is skipped, a sign taken, then digits with at most one point,
\* one digit at least.  The double is (-1)^neg * mant / 10^scale.
Strtod(value) ==
  LET b == CString(value)
      p0 == 1 + Strspn(b, 1, IsSpace)
      neg == b[p0] = "-"
      p1 == IF b[p0] \in {"+", "-"} THEN p0 + 1 ELSE p0
      n1 == Strspn(b, p1, DigitsOf(10))
      dot == b[p1 + n1] = "."
      n2 == IF dot THEN Strspn(b, p1 + n1 + 1, DigitsOf(10)) ELSE 0
      int == SubSeq(b, p1, p1 + n1 - 1)
      frac == SubSeq(b, p1 + n1 + 1, p1 + n1 + n2)
  IN  IF n1 + n2 = 0 THEN [consumed |-> 0, value |-> 0]
      ELSE [consumed |-> p1 + n1 + (IF dot THEN 1 + n2 ELSE 0) - 1,
            value |-> [neg |-> neg, mant |-> Number(int \o frac, 10),
                       scale |-> n2]]

\* sizeof (vl.plugin_instance) and sizeof (vl.type_instance)
DATA_MAX_NAME_LEN == 64

\* What a call of submit does that nothing of it has done so far.
NoEffect(reads) == [reads |-> reads, get_ds |-> << >>, dispatch |-> << >>]

\* The body of submit for the call c, when the read of the type of the entry
\* after the last one gives past_end and plugin_get_ds answers ds: the indexes
\* of lookup_table it reads, its call of plugin_get_ds and its call of
\* plugin_dispatch_values (vl.time and vl.host are left out).
SubmitBody(c, ds, past_end) ==
  LET i == LookupIndex(c.pdns_type)
      reads == 0 .. i
      found == IF i < lookup_table_length THEN lookup_table[i + 1].type
               ELSE past_end
      type == lookup_table[i + 1].type
      type_instance == lookup_table[i + 1].type_instance
      asked == [NoEffect(reads) EXCEPT
                  !.get_ds = << [arg |-> type, ret |-> ds] >>]
      parsed == IF ds.type = DS_TYPE_GAUGE THEN Strtod(c.value)
                ELSE Strtoll(c.value)
  IN  IF found = NULL THEN NoEffect(reads)
      ELSE IF i >= lookup_table_length THEN NoEffect(reads)
      ELSE IF ds = NULL THEN asked
      ELSE IF ds.ds_num /= 1 THEN asked
      ELSE IF parsed.consumed = 0 THEN asked
      ELSE [asked EXCEPT !.dispatch =
              << [type |-> type,
                  values |-> << parsed.value >>,
                  plugin |-> "powerdns",
                  type_instance |->
                    IF type_instance /= NULL
                    THEN sstrncpy(type_instance, DATA_MAX_NAME_LEN)
                    ELSE << NUL >>,
                  plugin_instance |->
                    sstrncpy(c.plugin_instance, DATA_MAX_NAME_LEN)] >>]

\* The calls among calls of submit that get as far as plugin_get_ds.
Resolved(calls) ==
  { n \in 1 .. Len(calls) :
      LookupIndex(calls[n].pdns_type) < lookup_table_length }

\* What the calls of submit do, one after the other, when plugin_get_ds
\* answers ds[n] to the n-th of them.
SubmitEffects(calls, ds, past_end) ==
  [n \in 1 .. Len(calls) |->
     SubmitBody(calls[n], IF n \in DOMAIN ds THEN ds[n] ELSE NULL, past_end)]

\* What may be read as a type right after the last entry of lookup_table.
PastEnd == { NULL, << "?", NUL >> }

\* ------------------------------------------------------------ configuration
\* The strings configuration files give in the runs checked.
InstanceA == << "a", NUL >>
CommandXY == << "g", "e", "t", " ", "x", " ", "y", NUL >>
SocketS == << "/", "s", NUL >>
LocalP == << "/", "p", NUL >>

\* option->key of a LocalSocket option, as a C string.
KeyLocalSocket ==
  << "L", "o", "c", "a", "l", "S", "o", "c", "k", "e", "t", NUL >>

OneString(s) == << [type |-> "OCONFIG_TYPE_STRING", string |-> s] >>
OneNumber == << [type |-> "OCONFIG_TYPE_NUMBER", string |-> NULL] >>

\* oconfig_item_t: key, values and children.
Item(key, values, children) ==
  [key |-> key, values |-> values, children |-> children]

\* The options a Server or Recursor block may hold.
NestedOptions ==
  { Item("Command", OneString(CommandXY), << >>),
    Item("Command", << >>, << >>),
    Item("Socket", OneString(SocketS), << >>),
    Item("Socket", OneNumber, << >>),
    Item("Bogus", OneString(SocketS), << >>) }

\* The options the <Plugin powerdns> block may hold.
TopOptions ==
  { Item(k, v, c) : k \in {"Server", "Recursor"},
                    v \in { OneString(InstanceA), << >>, OneNumber },
                    c \in SeqsUpTo(NestedOptions, 1) }
  \cup { Item("LocalSocket", OneString(LocalP), << >>),
         Item("Bogus", OneString(LocalP), << >>) }

\* powerdns_config_add_string: the status and the new value of *dest.
powerdns_config_add_string(dest, ci) ==
  IF Len(ci.values) /= 1 \/ ci.values[1].type /= "OCONFIG_TYPE_STRING"
  THEN [status |-> -1, dest |-> dest]
  ELSE [status |-> 0, dest |-> ci.values[1].string]

RECURSIVE AddServerOptions(_, _, _)
\* The loop of powerdns_config_add_server over the children of the block,
\* from child i on; st holds status, command and socket_temp.
AddServerOptions(ci, i, st) ==
  IF i > Len(ci.children) THEN st
  ELSE LET option == ci.children[i]
           r == IF option.key = "Command"
                THEN LET a == powerdns_config_add_string(st.command, option)
                     IN  [st EXCEPT !.status = a.status, !.command = a.dest]
                ELSE IF option.key = "Socket"
                THEN LET a == powerdns_config_add_string(st.socket_temp, option)
                     IN  [st EXCEPT !.status = a.status, !.socket_temp = a.dest]
                ELSE [st EXCEPT !.status = -1]
       IN  IF r.status /= 0 THEN r ELSE AddServerOptions(ci, i + 1, r)

\* The allocations of powerdns_config_add_server that may fail: "item" is the
\* malloc of the item, the strdup of its instance, the strdup of an option's
\* string or llentry_create, after each of which the block is given up;
\* "command" and "socket_temp" are the strdup of the default command and of
\* the default socket path, which leave a null pointer behind.
Allocs == { "item", "command", "socket_temp" }

\* The allocation that fails at child i, "none" when none does; nomem maps
\* the children at which one fails to the allocation.
Fails(nomem, i) == IF i \in DOMAIN nomem THEN nomem[i] ELSE "none"

\* The maps from some of the children 1 .. n to the allocation that fails.
NoMems(n) == UNION { [d -> Allocs] : d \in SUBSET (1 .. n) }

\* powerdns_config_add_server that appends the item without looking at
\* socket_temp and item->command.
AddServerNoNullCheck(l, ci, nomem) ==
  IF Len(ci.values) /= 1 \/ ci.values[1].type /= "OCONFIG_TYPE_STRING" THEN l
  ELSE IF nomem = "item" THEN l
  ELSE
    LET server == ci.key = "Server"
        item0 == [func |-> IF server THEN "powerdns_read_server"
                                     ELSE "powerdns_read_recursor",
                  instance |-> ci.values[1].string,
                  command |-> IF nomem = "command" THEN NULL
                              ELSE IF server THEN SERVER_COMMAND
                              ELSE RECURSOR_COMMAND,
                  sockaddr |-> NULL,
                  socktype |-> IF server THEN SOCK_STREAM ELSE SOCK_DGRAM]
        st == AddServerOptions(ci, 1,
                [status |-> 0, command |-> item0.command,
                 socket_temp |-> IF nomem = "socket_temp" THEN NULL
                                 ELSE IF server THEN SERVER_SOCKET
                                 ELSE RECURSOR_SOCKET])
    IN  IF st.status /= 0 THEN l
        ELSE Append(l, [item0 EXCEPT
                          !.command = st.command,
                          !.sockaddr = IF st.socket_temp = NULL THEN NULL
                                       ELSE sstrncpy(st.socket_temp,
                                                     UNIX_PATH_MAX)])

\* powerdns_config_add_server (ci) on list l: the list afterwards.  nomem is
\* the allocation of the call that fails, "none" when none does.  The key of
\* ci is Server or Recursor: powerdns_config calls it for no other block.
powerdns_config_add_server(l, ci, nomem) ==
  IF Len(ci.values) /= 1 \/ ci.values[1].type /= "OCONFIG_TYPE_STRING" THEN l
  ELSE IF nomem = "item" THEN l
  ELSE
    LET server == ci.key = "Server"
        item0 == [func |-> IF server THEN "powerdns_read_server"
                                     ELSE "powerdns_read_recursor",
                  instance |-> ci.values[1].string,
                  command |-> IF nomem = "command" THEN NULL
                              ELSE IF server THEN SERVER_COMMAND
                              ELSE RECURSOR_COMMAND,
                  sockaddr |-> NULL,
                  socktype |-> IF server THEN SOCK_STREAM ELSE SOCK_DGRAM]
        st == AddServerOptions(ci, 1,
                [status |-> 0, command |-> item0.command,
                 socket_temp |-> IF nomem = "socket_temp" THEN NULL
                                 ELSE IF server THEN SERVER_SOCKET
                                 ELSE RECURSOR_SOCKET])
    IN  IF st.status /= 0 \/ st.socket_temp = NULL \/ st.command = NULL THEN l
        ELSE Append(l, [item0 EXCEPT
                          !.command = st.command,
                          !.sockaddr = sstrncpy(st.socket_temp, UNIX_PATH_MAX)])

RECURSIVE ConfigLoopStopsAtError(_, _, _, _)
\* ConfigLoop that returns when powerdns_config_add_server has added nothing.
ConfigLoopStopsAtError(ci, i, st, nomem) ==
  IF i > Len(ci) THEN st
  ELSE LET option == ci[i]
           added == IF option.key \in {"Server", "Recursor"}
                    THEN powerdns_config_add_server(st.list, option, Fails(nomem, i))
                    ELSE st.list
       IN  IF option.key \in {"Server", "Recursor"} /\ added = st.list THEN st
           ELSE IF option.key = "LocalSocket"
           THEN IF i \in DOMAIN nomem THEN [st EXCEPT !.list = added]
                ELSE ConfigLoopStopsAtError(ci, i + 1,
                       [list |-> added, local_sockpath |-> KeyLocalSocket],
                       nomem)
           ELSE ConfigLoopStopsAtError(ci, i + 1, [st EXCEPT !.list = added],
                                       nomem)

RECURSIVE ConfigLoop(_, _, _, _)
\* The loop of powerdns_config over the children of ci, from child i on; st
\* holds list and local_sockpath, nomem the children at which an allocation
\* fails.
ConfigLoop(ci, i, st, nomem) ==
  IF i > Len(ci) THEN st
  ELSE LET option == ci[i]
           added == IF option.key \in {"Server", "Recursor"}
                    THEN powerdns_config_add_server(st.list, option, Fails(nomem, i))
                    ELSE st.list
       IN  IF option.key = "LocalSocket"
           THEN IF i \in DOMAIN nomem THEN [st EXCEPT !.list = added]
                ELSE ConfigLoop(ci, i + 1,
                       [list |-> added, local_sockpath |-> KeyLocalSocket],
                       nomem)
           ELSE ConfigLoop(ci, i + 1, [st EXCEPT !.list = added], nomem)

\* ------------------------------------------------------------------- state
\* list            the targets, in the order of the linked list
\* local_sockpath  the configured local bind path, NULL when none
\* sockfile        the file at the local bind path: 0 none, -1 a stale file,
\*                 t the socket thread t has bound
\* phase           "config" until the first collection cycle, then "run",
\*                 "crashed" once the process has died
\* conf            in the runs that look at one call of powerdns_config: ci,
\*                 the children of the block it is called with; nomem, the
\*                 children at which an allocation fails; done, that the
\*                 call has returned
\* th[t]           the thread t of the daemon that runs powerdns_read: its
\*                 place (pc), the variables of powerdns_get_data_dgram or
\*                 powerdns_get_data_stream (open: the sockets it holds open,
\*                 heap: the reply buffers allocated and not freed), those
\*                 of the collection
\*                 function (cstatus, cbuffer, cbuffer_size) and what it has
\*                 done: reply, the buffer as powerdns_get_data returned it;
\*                 calls, the library calls of this powerdns_get_data;
\*                 polled, the targets polled in this cycle; rets, what
\*                 their collection functions returned; submitted, the
\*                 calls of submit for this target; effects, what each of
\*                 these calls did
\* No configuration is kept for a later call.
NoConf == [ci |-> << >>, nomem |-> << >>, done |-> FALSE]

IdleThread ==
  [pc |-> "idle", e |-> 0,
   open |-> 0, status |-> 0, temp |-> << >>, buffer |-> NULL, buffer_size |-> 0,
   heap |-> 0,
   cstatus |-> 0, cbuffer |-> NULL, cbuffer_size |-> 0, reply |-> NULL,
   calls |-> << >>, polled |-> << >>, rets |-> << >>, submitted |-> << >>,
   effects |-> << >>]

Init ==
  /\ list = << >>
  /\ local_sockpath = NULL
  /\ sockfile \in {0, -1}
  /\ phase = "config"
  /\ conf = NoConf
  /\ th = [t \in Threads |-> IdleThread]

\* powerdns_config (ci), called while the daemon reads its configuration.
powerdns_config ==
  /\ phase = "config"
  /\ \E ci \in SeqsUpTo(TopOptions, MaxOptions), nomem \in NoMems(MaxOptions) :
       LET st == ConfigLoop(ci, 1,
                   [list |-> list, local_sockpath |-> local_sockpath], nomem)
       IN  /\ Len(ci) > 0
           /\ DOMAIN nomem \subseteq 1 .. Len(ci)
           /\ Len(st.list) <= MaxTargets
           /\ list' = st.list
           /\ local_sockpath' = st.local_sockpath
  /\ UNCHANGED << sockfile, phase, th, conf >>

\* ------------------------------------------------------- collection cycle
Set(t, r) == th' = [th EXCEPT ![t] = r]

\* Thread t is at place p, and the daemon runs.
At(t, p) == phase /= "crashed" /\ th[t].pc = p

\* powerdns_read: e = llist_head (list).
ReadBegin(t) ==
  /\ At(t, "idle")
  /\ phase' = "run"
  /\ Set(t, [IdleThread EXCEPT !.pc = "read", !.e = 1])
  /\ UNCHANGED << list, local_sockpath, sockfile, conf >>

\* powerdns_read: the test e != NULL, and the call item->func (item) up to
\* its call of powerdns_get_data.
ReadNext(t) ==
  /\ At(t, "read")
  /\ IF th[t].e > Len(list)
     THEN Set(t, [th[t] EXCEPT !.pc = "idle"])
     ELSE Set(t, [th[t] EXCEPT
                    !.pc = IF list[th[t].e].socktype = SOCK_DGRAM THEN "dg_socket"
                           ELSE IF list[th[t].e].socktype = SOCK_STREAM
                           THEN "st_socket"
                           ELSE "returned",
                    !.cstatus = -1,
                    !.polled = Append(@, th[t].e),
                    !.calls = << >>, !.submitted = << >>, !.effects = << >>,
                    !.cbuffer = NULL, !.cbuffer_size = 0, !.reply = NULL,
                    !.buffer = NULL, !.buffer_size = 0, !.temp = << >>,
                    !.status = 0, !.heap = 0])
  /\ UNCHANGED << list, local_sockpath, sockfile, phase, conf >>

\* The return of powerdns_get_data_dgram or powerdns_get_data_stream with
\* status s to the collection function: thread record r at the return.
Return(r, s) == [r EXCEPT !.pc = "returned", !.cstatus = s, !.temp = << >>,
                          !.buffer = NULL, !.buffer_size = 0, !.status = 0]

\* The thread record r after a library call: name, the argument of interest,
\* the value returned and errno.
CallE(r, name, arg, ret, errno) ==
  [r EXCEPT !.calls = Append(@, [name |-> name, arg |-> arg, ret |-> ret,
                                 errno |-> errno])]

Call(r, name, arg, ret) == CallE(r, name, arg, ret, "")

\* The target the thread is polling.
ItemOf(t) == list[th[t].e]

\* ----------------------------------------------- powerdns_get_data_dgram
\* The bytes a recursor may answer with.
DgramBytes == {"1", " "}

\* sa_unix.sun_path: the local bind path.
SunPath ==
  sstrncpy(IF local_sockpath /= NULL THEN local_sockpath ELSE PDNS_LOCAL_SOCKPATH,
           UNIX_PATH_MAX)

\* sd = socket (PF_UNIX, item->socktype, 0)
DgSocket(t) ==
  /\ At(t, "dg_socket")
  /\ \E ok \in BOOLEAN :
       LET r == Call(th[t], "socket", << >>, IF ok THEN 0 ELSE -1)
       IN  Set(t, IF ok THEN [r EXCEPT !.pc = "dg_unlink", !.open = 1]
                        ELSE Return(r, -1))
  /\ UNCHANGED << list, local_sockpath, sockfile, phase, conf >>

\* status = unlink (sa_unix.sun_path) before the bind: "ok" removes the file,
\* "ENOENT" finds none, "EACCES" stands for every other error.
DgUnlinkStale(t) ==
  /\ At(t, "dg_unlink")
  /\ \E res \in {"ok", "ENOENT", "EACCES"} :
       LET r == CallE(th[t], "unlink", SunPath, IF res = "ok" THEN 0 ELSE -1,
                      IF res = "ok" THEN "" ELSE res)
       IN  /\ res = "ok" => sockfile /= 0
           /\ res = "ENOENT" => sockfile = 0
           /\ sockfile' = IF res = "ok" THEN 0 ELSE sockfile
           /\ Set(t, IF res \in {"ok", "ENOENT"}
                     THEN [r EXCEPT !.pc = "dg_bind",
                                    !.status = IF res = "ok" THEN 0 ELSE -1]
                     ELSE Return([Call(r, "close", << >>, 0) EXCEPT !.open = @ - 1],
                                 -1))
  /\ UNCHANGED << list, local_sockpath, phase, conf >>

\* status = bind (sd, &sa_unix, sizeof (sa_unix)): it fails when the path
\* exists, and may fail otherwise.
DgBind(t) ==
  /\ At(t, "dg_bind")
  /\ \E ok \in BOOLEAN :
       LET r == Call(th[t], "bind", SunPath, IF ok THEN 0 ELSE -1)
       IN  /\ ok => sockfile = 0
           /\ sockfile' = IF ok THEN t ELSE sockfile
           /\ Set(t, IF ok THEN [r EXCEPT !.pc = "dg_chmod", !.status = 0]
                           ELSE [r EXCEPT !.pc = "dg_close", !.status = -1])
  /\ UNCHANGED << list, local_sockpath, phase, conf >>

\* status = chmod (sa_unix.sun_path, 0666): it fails when the path is gone,
\* and may fail otherwise.
DgChmod(t) ==
  /\ At(t, "dg_chmod")
  /\ \E ok \in BOOLEAN :
       LET r == Call(th[t], "chmod", SunPath, IF ok THEN 0 ELSE -1)
       IN  /\ ok => sockfile /= 0
           /\ Set(t, IF ok THEN [r EXCEPT !.pc = "dg_connect", !.status = 0]
                           ELSE [r EXCEPT !.pc = "dg_close", !.status = -1])
  /\ UNCHANGED << list, local_sockpath, sockfile, phase, conf >>

\* DgConnect without the break after a failed connect.
DgConnectNoBreak(t) ==
  /\ At(t, "dg_connect")
  /\ \E ok \in BOOLEAN :
       LET r == Call(th[t], "connect", ItemOf(t).sockaddr, IF ok THEN 0 ELSE -1)
       IN  Set(t, [r EXCEPT !.pc = "dg_send", !.status = IF ok THEN 0 ELSE -1])
  /\ UNCHANGED << list, local_sockpath, sockfile, phase, conf >>

\* status = connect (sd, &item->sockaddr, sizeof (item->sockaddr))
DgConnect(t) ==
  /\ At(t, "dg_connect")
  /\ \E ok \in BOOLEAN :
       LET r == Call(th[t], "connect", ItemOf(t).sockaddr, IF ok THEN 0 ELSE -1)
       IN  Set(t, IF ok THEN [r EXCEPT !.pc = "dg_send", !.status = 0]
                        ELSE [r EXCEPT !.pc = "dg_close", !.status = -1])
  /\ UNCHANGED << list, local_sockpath, sockfile, phase, conf >>

\* status = send (sd, item->command, strlen (item->command), 0)
DgSend(t) ==
  /\ At(t, "dg_send")
  /\ \E ok \in BOOLEAN :
       LET n == Strlen(ItemOf(t).command, 1)
           r == Call(th[t], "send", SubSeq(ItemOf(t).command, 1, n),
                     IF ok THEN n ELSE -1)
       IN  Set(t, IF ok THEN [r EXCEPT !.pc = "dg_recv", !.status = n]
                        ELSE [r EXCEPT !.pc = "dg_close", !.status = -1])
  /\ UNCHANGED << list, local_sockpath, sockfile, phase, conf >>

\* The status the do-while block ends with after a recv of n >= 0 bytes.
DgramStatus(n) == 0

\* status = recv (sd, temp, sizeof (temp), 0), and the end of the block.
DgRecv(t) ==
  /\ At(t, "dg_recv")
  /\ \E ok \in BOOLEAN, data \in SeqsUpTo(DgramBytes, Min(MaxDgramLen, TEMP_SIZE)) :
       LET r == IF ok THEN Call(th[t], "recv", data, Len(data))
                      ELSE Call(th[t], "recv", << >>, -1)
       IN  Set(t, IF ok THEN [r EXCEPT !.pc = "dg_close", !.temp = data,
                                       !.status = DgramStatus(Len(data))]
                        ELSE [r EXCEPT !.pc = "dg_close", !.status = -1])
  /\ UNCHANGED << list, local_sockpath, sockfile, phase, conf >>

\* close (sd) after the block
DgClose(t) ==
  /\ At(t, "dg_close")
  /\ Set(t, [Call(th[t], "close", << >>, 0) EXCEPT !.pc = "dg_cleanup",
                                                    !.open = @ - 1])
  /\ UNCHANGED << list, local_sockpath, sockfile, phase, conf >>

\* The reply buffer of powerdns_get_data_dgram: status + 1 bytes, the first
\* status bytes of temp and a NUL.
DgramBuffer(temp, status) == Append(SubSeq(temp, 1, status), NUL)

\* DgCleanup without the unlink after the close.
DgCleanupNoUnlink(t) ==
  /\ At(t, "dg_cleanup")
  /\ \E nomem \in BOOLEAN :
       LET r == th[t]
       IN  Set(t, IF r.status /= 0 THEN Return(r, -1)
                  ELSE IF nomem
                  THEN Return(Call(r, "malloc", << >>, -1), -1)
                  ELSE [Return(Call(r, "malloc", << >>, 0), 0) EXCEPT
                          !.cbuffer = DgramBuffer(r.temp, r.status),
                          !.reply = DgramBuffer(r.temp, r.status),
                          !.cbuffer_size = r.status + 1,
                          !.heap = 1])
  /\ UNCHANGED << list, local_sockpath, sockfile, phase, conf >>

\* unlink (sa_unix.sun_path) after the close, its result ignored, and the
\* rest of powerdns_get_data_dgram; nomem says that malloc fails.
DgCleanup(t) ==
  /\ At(t, "dg_cleanup")
  /\ \E removed \in BOOLEAN, nomem \in BOOLEAN :
       LET r == Call(th[t], "unlink", SunPath, IF removed THEN 0 ELSE -1)
       IN  /\ removed => sockfile /= 0
           /\ sockfile' = IF removed THEN 0 ELSE sockfile
           /\ Set(t, IF r.status /= 0 THEN Return(r, -1)
                     ELSE IF nomem
                     THEN Return(Call(r, "malloc", << >>, -1), -1)
                     ELSE [Return(Call(r, "malloc", << >>, 0), 0) EXCEPT
                             !.cbuffer = DgramBuffer(r.temp, r.status),
                             !.reply = DgramBuffer(r.temp, r.status),
                             !.cbuffer_size = r.status + 1,
                             !.heap = 1])
  /\ UNCHANGED << list, local_sockpath, phase, conf >>

\* ---------------------------------------------- powerdns_get_data_stream
\* The bytes an authoritative server may answer with.
StreamBytes == {"a", "="}

\* sd = socket (PF_UNIX, item->socktype, 0)
StSocket(t) ==
  /\ At(t, "st_socket")
  /\ \E ok \in BOOLEAN :
       LET r == Call(th[t], "socket", << >>, IF ok THEN 0 ELSE -1)
       IN  Set(t, IF ok THEN [r EXCEPT !.pc = "st_connect", !.open = 1]
                        ELSE Return(r, -1))
  /\ UNCHANGED << list, local_sockpath, sockfile, phase, conf >>

\* StConnect that returns from a failed connect without close (sd).
StConnectNoClose(t) ==
  /\ At(t, "st_connect")
  /\ \E ok \in BOOLEAN :
       LET r == Call(th[t], "connect", ItemOf(t).sockaddr, IF ok THEN 0 ELSE -1)
       IN  Set(t, IF ok THEN [r EXCEPT !.pc = "st_send", !.status = 0]
                        ELSE Return(r, -1))
  /\ UNCHANGED << list, local_sockpath, sockfile, phase, conf >>

\* status = connect (sd, &item->sockaddr, sizeof (item->sockaddr))
StConnect(t) ==
  /\ At(t, "st_connect")
  /\ \E ok \in BOOLEAN :
       LET r == Call(th[t], "connect", ItemOf(t).sockaddr, IF ok THEN 0 ELSE -1)
       IN  Set(t, IF ok THEN [r EXCEPT !.pc = "st_send", !.status = 0]
                        ELSE Return([Call(r, "close", << >>, 0) EXCEPT !.open = @ - 1],
                                    -1))
  /\ UNCHANGED << list, local_sockpath, sockfile, phase, conf >>

\* status = send (sd, item->command, strlen (item->command) + 1, 0)
StSend(t) ==
  /\ At(t, "st_send")
  /\ \E ok \in BOOLEAN :
       LET n == Strlen(ItemOf(t).command, 1) + 1
           r == Call(th[t], "send", SubSeq(ItemOf(t).command, 1, n),
                     IF ok THEN n ELSE -1)
       IN  Set(t, IF ok THEN [r EXCEPT !.pc = "st_recv", !.status = n]
                        ELSE Return([Call(r, "close", << >>, 0) EXCEPT !.open = @ - 1],
                                    -1))
  /\ UNCHANGED << list, local_sockpath, sockfile, phase, conf >>

\* StreamAppend with the chunk copied to buffer instead of buffer + buffer_size.
StreamAppendAtStart(buffer, buffer_size, temp, status) ==
  Append(SubSeq(temp, 1, status), NUL)

\* The buffer after realloc (buffer, buffer_size + status + 1), the memcpy of
\* the chunk in temp to buffer + buffer_size, and the NUL after it.
StreamAppend(buffer, buffer_size, temp, status) ==
  Append(SubSeq(buffer, 1, buffer_size) \o SubSeq(temp, 1, status), NUL)

\* One turn of the while (42) loop: status = recv (sd, temp, sizeof (temp), 0)
\* gives an error, the end of the stream or a chunk; nomem says that realloc
\* fails.
StRecv(t) ==
  /\ At(t, "st_recv")
  /\ \E res \in {"error", "eof", "data"}, nomem \in BOOLEAN,
        data \in SeqsUpTo(StreamBytes, Min(MaxStreamLen, TEMP_SIZE)) :
       LET r == IF res = "data" THEN Call(th[t], "recv", data, Len(data))
                ELSE Call(th[t], "recv", << >>, IF res = "eof" THEN 0 ELSE -1)
       IN  /\ res = "data" => /\ Len(data) > 0
                              /\ r.buffer_size + Len(data) <= MaxStreamLen
           /\ res /= "data" => data = << >>
           /\ res /= "data" => ~nomem
           /\ Set(t, IF res = "error"
                     THEN [r EXCEPT !.pc = "st_close", !.status = -1]
                     ELSE IF res = "eof"
                     THEN [r EXCEPT !.pc = "st_close", !.status = 0]
                     ELSE IF nomem
                     THEN [Call(r, "realloc", << >>, -1) EXCEPT
                             !.pc = "st_close", !.status = -1,
                             !.temp = data]
                     ELSE [Call(r, "realloc", << >>, 0) EXCEPT
                             !.temp = data,
                             !.status = Len(data),
                             !.buffer = StreamAppend(r.buffer, r.buffer_size,
                                                     data, Len(data)),
                             !.buffer_size = @ + Len(data),
                             !.heap = 1])
  /\ UNCHANGED << list, local_sockpath, sockfile, phase, conf >>

\* StClose without the test of status: the buffer is handed over after a
\* failed recv too.
StCloseKeepsPartial(t) ==
  /\ At(t, "st_close")
  /\ LET r == [Call(th[t], "close", << >>, 0) EXCEPT !.open = @ - 1]
     IN  Set(t, [Return(r, r.status) EXCEPT !.cbuffer = r.buffer,
                                            !.reply = r.buffer,
                                            !.cbuffer_size = r.buffer_size])
  /\ UNCHANGED << list, local_sockpath, sockfile, phase, conf >>

\* close (sd) after the loop, and the rest of powerdns_get_data_stream.
StClose(t) ==
  /\ At(t, "st_close")
  /\ LET r == [Call(th[t], "close", << >>, 0) EXCEPT !.open = @ - 1]
     IN  Set(t, IF r.status < 0 THEN Return([r EXCEPT !.heap = 0], r.status)
                ELSE [Return(r, r.status) EXCEPT !.cbuffer = r.buffer,
                                                 !.reply = r.buffer,
                                                 !.cbuffer_size = r.buffer_size])
  /\ UNCHANGED << list, local_sockpath, sockfile, phase, conf >>

\* ------------------------------------------------- collection functions
\* sfree (buffer) in a collection function.
Sfree(r) == [r EXCEPT !.heap = 0]

\* The return of item->func (item) with value s to powerdns_read, which goes
\* on to e->next.
FuncReturn(r, s) ==
  [r EXCEPT !.pc = "read", !.e = @ + 1, !.rets = Append(@, s),
            !.cbuffer = NULL, !.cbuffer_size = 0, !.cstatus = 0]

\* powerdns_read_server after powerdns_get_data has returned.  strtok_r on a
\* null buffer with a null saveptr is undefined: libc dereferences the null
\* pointer, or returns NULL.
ReadServer(t) ==
  /\ At(t, "returned")
  /\ ItemOf(t).func = "powerdns_read_server"
  /\ \E null_deref \in BOOLEAN :
       LET r == th[t]
       IN  IF r.cstatus /= 0
           THEN /\ Set(t, FuncReturn(r, -1))
                /\ phase' = phase
           ELSE IF r.cbuffer = NULL
           THEN IF null_deref
                THEN /\ Set(t, [r EXCEPT !.pc = "crashed"])
                     /\ phase' = "crashed"
                ELSE /\ Set(t, FuncReturn(Sfree(r), 0))
                     /\ phase' = phase
           ELSE LET c == ServerLoop(ItemOf(t).instance, r.cbuffer, 1, 0, << >>)
                IN  \E ds \in [Resolved(c) -> DataSets], past_end \in PastEnd :
                      /\ Set(t, FuncReturn(
                             Sfree([r EXCEPT
                                      !.submitted = c,
                                      !.effects = SubmitEffects(c, ds, past_end)]),
                             0))
                      /\ phase' = phase
  /\ UNCHANGED << list, local_sockpath, sockfile, conf >>

\* KeysList with a copy of the default command.
KeysListDefault(t) == RECURSOR_COMMAND

\* keys_list = strdup (item->command)
KeysList(t) == ItemOf(t).command

\* ReadRecursor that tokenizes item->command itself: the strtok_r that skips
\* the verb writes a NUL into the command of the target.
ReadRecursorInPlace(t) ==
  /\ At(t, "returned")
  /\ ItemOf(t).func = "powerdns_read_recursor"
  /\ LET r == th[t]
         skip == StrtokR(ItemOf(t).command, 1, 0, {" ", "\t"})
         c == RecursorLoop(ItemOf(t).instance, r.cbuffer, 1, 0,
                           skip.buf, skip.save, << >>)
     IN  IF r.cstatus /= 0
         THEN /\ Set(t, FuncReturn(r, -1))
              /\ list' = list
         ELSE /\ Set(t, FuncReturn(Sfree([r EXCEPT !.submitted = c]), 0))
              /\ list' = [list EXCEPT ![r.e].command = skip.buf]
  /\ UNCHANGED << local_sockpath, sockfile, phase, conf >>

\* powerdns_read_recursor after powerdns_get_data has returned; nomem says
\* that strdup fails.
ReadRecursor(t) ==
  /\ At(t, "returned")
  /\ ItemOf(t).func = "powerdns_read_recursor"
  /\ \E nomem \in BOOLEAN :
       LET r == th[t]
           c == RecursorDecode(ItemOf(t).instance, r.cbuffer, KeysList(t))
       IN  IF r.cstatus /= 0 THEN Set(t, FuncReturn(r, -1))
           ELSE IF nomem
           THEN Set(t, FuncReturn(Sfree(Call(r, "strdup", KeysList(t), -1)), -1))
           ELSE \E ds \in [Resolved(c) -> DataSets], past_end \in PastEnd :
                  Set(t, FuncReturn(
                           Sfree([Call(r, "strdup", KeysList(t), 0) EXCEPT
                                    !.submitted = c,
                                    !.effects = SubmitEffects(c, ds, past_end)]),
                           0))
  /\ UNCHANGED << list, local_sockpath, sockfile, phase, conf >>

\* ------------------------------------------------------------ specifications
Step(t) ==
  \/ ReadBegin(t) \/ ReadNext(t)
  \/ DgSocket(t) \/ DgUnlinkStale(t) \/ DgBind(t) \/ DgChmod(t) \/ DgConnect(t)
  \/ DgSend(t) \/ DgRecv(t) \/ DgClose(t) \/ DgCleanup(t)
  \/ StSocket(t) \/ StConnect(t) \/ StSend(t) \/ StRecv(t) \/ StClose(t)
  \/ ReadServer(t) \/ ReadRecursor(t)

\* The daemon as collectd runs it: one read of the plugin at a time.
Next == powerdns_config \/ Step(1)

Spec == Init /\ [][Next]_vars

\* The comma-pair decoder on its own: powerdns_read_server with a reply
\* buffer that powerdns_get_data has just returned.
CharBuffers == { CString(s) : s \in SeqsUpTo({"a", "=", ","}, MaxServerBuf) }

\* Names of statistics that lookup_table does not hold.
AbsentNames ==
  { << "q", "u", "e", "s", "t", "i", "o", "n" >>,
    << "q", "u", "e", "s", "t", "i", "o", "n", "s", "s" >>,
    << "Q", "u", "e", "s", "t", "i", "o", "n", "s" >>,
    << "u", "e", "s", "t", "i", "o", "n", "s" >>,
    << "l", "a", "t", "e", "n", "c", "y", " " >> }

\* The names of statistics a reply may hold: those of lookup_table and some
\* others.
RawNames ==
  { StrAt(lookup_table[i].name, 1) : i \in 1 .. lookup_table_length }
  \cup AbsentNames

\* The values a reply may give a statistic: numbers, in the ways strtod and
\* strtoll read them, and others.
RawValues ==
  SeqsUpTo({"1", "0", "-", ".", " ", "/"}, MaxValueLen) \ { << >> }

Latency == << "l", "a", "t", "e", "n", "c", "y" >>
Questions == << "q", "u", "e", "s", "t", "i", "o", "n", "s" >>

\* The replies with one statistic, and some with two.
StatBuffers ==
  { CString(n \o << "=" >> \o v) : n \in RawNames, v \in RawValues }
  \cup
  { CString(n1 \o << "=" >> \o v1 \o << "," >> \o n2 \o << "=" >> \o v2) :
      n1 \in {Latency, Questions, << "q", "u", "e", "s", "t", "i", "o", "n" >>},
      v1 \in { << "1" >>, << "/" >> },
      n2 \in {Latency, Questions, << "q", "u", "e", "s", "t", "i", "o", "n" >>},
      v2 \in { << "1" >>, << "/" >> } }

ServerBuffers == CharBuffers \cup StatBuffers

ServerItem ==
  [func |-> "powerdns_read_server", instance |-> InstanceA,
   command |-> SERVER_COMMAND,
   sockaddr |-> sstrncpy(SERVER_SOCKET, UNIX_PATH_MAX), socktype |-> SOCK_STREAM]

InitServerDecode ==
  /\ list = << ServerItem >>
  /\ local_sockpath = NULL
  /\ sockfile = 0
  /\ phase = "run"
  /\ conf = NoConf
  /\ \E b \in ServerBuffers :
       th = [t \in Threads |->
               IF t = 1
               THEN [IdleThread EXCEPT !.pc = "returned", !.e = 1,
                                       !.polled = << 1 >>, !.cstatus = 0,
                                       !.cbuffer = b, !.cbuffer_size = Len(b) - 1,
                                       !.reply = b,
                                       !.heap = 1]
               ELSE IdleThread]

NextServerDecode == ReadServer(1)

SpecServerDecode == InitServerDecode /\ [][NextServerDecode]_vars

\* The positional decoder on its own: powerdns_read_recursor with a command
\* and a reply buffer that powerdns_get_data has just returned.
RecursorBuffers ==
  { CString(s) : s \in SeqsUpTo({"1", " ", "\n"}, MaxRecursorBuf) }

RecursorCommands ==
  { CString(s) : s \in SeqsUpTo({"x", "y", " "}, MaxCommandLen) }
  \cup { RECURSOR_COMMAND, CommandXY,
         << "g", "\t", " ", "x", "\t", "y", "y", " ", NUL >>,
         CString(<< "g", "e", "t", " " >> \o Latency \o << " " >> \o Questions) }

RecursorItem(command) ==
  [func |-> "powerdns_read_recursor", instance |-> InstanceA,
   command |-> command,
   sockaddr |-> sstrncpy(RECURSOR_SOCKET, UNIX_PATH_MAX), socktype |-> SOCK_DGRAM]

InitRecursorDecode ==
  /\ \E c \in RecursorCommands : list = << RecursorItem(c) >>
  /\ local_sockpath = NULL
  /\ sockfile = 0
  /\ phase = "run"
  /\ conf = NoConf
  /\ \E b \in RecursorBuffers :
       th = [t \in Threads |->
               IF t = 1
               THEN [IdleThread EXCEPT !.pc = "returned", !.e = 1,
                                       !.polled = << 1 >>, !.cstatus = 0,
                                       !.cbuffer = b, !.cbuffer_size = Len(b),
                                       !.reply = b,
                                       !.heap = 1]
               ELSE IdleThread]

NextRecursorDecode == ReadRecursor(1)

SpecRecursorDecode == InitRecursorDecode /\ [][NextRecursorDecode]_vars

\* Two collection cycles triggered concurrently, after a configuration with
\* one Recursor block and the Command "get x y".
InitConc ==
  /\ list = << RecursorItem(CommandXY) >>
  /\ local_sockpath = NULL
  /\ sockfile \in {0, -1}
  /\ phase = "run"
  /\ conf = NoConf
  /\ th = [t \in Threads |-> IdleThread]

NextConc ==
  \E t \in Threads :
    \/ ReadBegin(t) \/ ReadNext(t)
    \/ DgSocket(t) \/ DgUnlinkStale(t) \/ DgBind(t) \/ DgChmod(t)
    \/ DgConnect(t) \/ DgSend(t) \/ DgRecv(t) \/ DgClose(t) \/ DgCleanup(t)
    \/ ReadRecursor(t)

SpecConc == InitConc /\ [][NextConc]_vars

\* The collection cycles after a configuration with a Server block and a
\* Recursor block with the Command "get x y", in either order.
InitCycle ==
  /\ list \in { << ServerItem, RecursorItem(CommandXY) >>,
                << RecursorItem(CommandXY), ServerItem >> }
  /\ local_sockpath = NULL
  /\ sockfile \in {0, -1}
  /\ phase = "config"
  /\ conf = NoConf
  /\ th = [t \in Threads |-> IdleThread]

NextCycle == Step(1)

SpecCycle == InitCycle /\ [][NextCycle]_vars

\* One call of powerdns_config on its own, with the children kept in conf.
Blocks ==
  { Item(k, OneString(InstanceA), c) :
      k \in {"Server", "Recursor"}, c \in SeqsUpTo(NestedOptions, 1) }
  \cup { Item("Recursor", OneString(InstanceA),
               << Item("Command", OneString(CommandXY), << >>),
                  Item("Bogus", OneString(SocketS), << >>) >>),
         Item("Server", OneString(InstanceA),
               << Item("Command", OneString(CommandXY), << >>),
                  Item("Socket", OneString(SocketS), << >>) >>),
         Item("Server", << >>, << >>),
         Item("LocalSocket", OneString(LocalP), << >>) }

InitConfig ==
  /\ list = << >>
  /\ local_sockpath = NULL
  /\ sockfile = 0
  /\ phase = "config"
  /\ th = [t \in Threads |-> IdleThread]
  /\ \E c \in SeqsUpTo(Blocks, MaxBlocks) \ { << >> } :
       \E n \in { m \in NoMems(Len(c)) : Cardinality(DOMAIN m) <= 1 } :
         conf = [ci |-> c, nomem |-> n, done |-> FALSE]

\* powerdns_config (ci) for the children kept in conf.
ConfigCall ==
  /\ phase = "config"
  /\ conf.ci /= << >>
  /\ ~conf.done
  /\ LET st == ConfigLoop(conf.ci, 1,
                   [list |-> list, local_sockpath |-> local_sockpath],
                   conf.nomem)
     IN  /\ list' = st.list
         /\ local_sockpath' = st.local_sockpath
  /\ conf' = [conf EXCEPT !.done = TRUE]
  /\ UNCHANGED << sockfile, phase, th >>

NextConfig == ConfigCall

SpecConfig == InitConfig /\ [][NextConfig]_vars

\* -------------------------------------------------------------------- claims
\* The target thread t polls, or has polled last.
Cur(t) == list[th[t].polled[Len(th[t].polled)]]

\* powerdns_get_data has returned to the collection function of a target of
\* socket type st, which has not looked at the result yet.
Returned(t, st) == th[t].pc = "returned" /\ Cur(t).socktype = st

\* The calls of library function name among calls c.
Named(c, name) == SelectSeq(c, LAMBDA x : x.name = name)

\* The chunks the recv calls among c delivered, in order.
Chunks(c) == SelectSeq(c, LAMBDA x : x.name = "recv" /\ x.ret > 0)

RECURSIVE Concat(_)
Concat(c) == IF c = << >> THEN << >> ELSE c[1].arg \o Concat(Tail(c))

\* Some call of name among c returned ret.
Got(c, name, ret) == \E i \in 1 .. Len(c) : c[i].name = name /\ c[i].ret = ret

\* C1: when every step of powerdns_get_data_dgram succeeds and recv returns n
\* bytes, it returns 0 with a buffer of exactly those n bytes and a NUL, and
\* the length of the reply (n, or n + 1 with the NUL).
C1_DgramReturnsReceivedBytes ==
  \A t \in Threads :
    ( /\ Returned(t, SOCK_DGRAM)
      /\ Named(th[t].calls, "recv") /= << >>
      /\ Named(th[t].calls, "recv")[1].ret >= 0
      /\ Got(th[t].calls, "malloc", 0) )
    => LET data == Named(th[t].calls, "recv")[1].arg
       IN  /\ th[t].cstatus = 0
           /\ th[t].cbuffer = Append(data, NUL)
           /\ th[t].cbuffer_size \in {Len(data), Len(data) + 1}

\* C2: when the stream peer sends chunks and then closes, and no realloc
\* fails, powerdns_get_data_stream returns 0 with the concatenation of the
\* chunks in arrival order and a NUL, and the sum of their sizes.
C2_StreamConcatenatesChunks ==
  \A t \in Threads :
    ( /\ Returned(t, SOCK_STREAM)
      /\ Got(th[t].calls, "recv", 0)
      /\ Chunks(th[t].calls) /= << >> )
    => LET all == Concat(Chunks(th[t].calls))
       IN  /\ th[t].cstatus = 0
           /\ th[t].cbuffer = Append(all, NUL)
           /\ th[t].cbuffer_size = Len(all)

\* Two different chunks and a close have been received and handed over.
C2_Witness ==
  \E t \in Threads :
    /\ Returned(t, SOCK_STREAM)
    /\ Got(th[t].calls, "recv", 0)
    /\ Len(Chunks(th[t].calls)) = 2
    /\ Chunks(th[t].calls)[1].arg = << "a", "=" >>
    /\ Chunks(th[t].calls)[2].arg = << "a" >>
    /\ th[t].cbuffer_size = 3

\* C3: when the stream peer closes without a byte, powerdns_get_data_stream
\* returns 0 with length 0 and a non-null buffer holding just the NUL, and
\* powerdns_read_server submits nothing and returns.
C3_EmptyStreamReplyIsABuffer ==
  /\ \A t \in Threads :
       ( /\ Returned(t, SOCK_STREAM)
         /\ Got(th[t].calls, "recv", 0)
         /\ Chunks(th[t].calls) = << >> )
       => /\ th[t].cstatus = 0
          /\ th[t].cbuffer_size = 0
          /\ th[t].cbuffer = << NUL >>
  /\ phase /= "crashed"

\* The library calls of a powerdns_get_data_dgram that got its socket.
PastSocket(t) ==
  /\ th[t].calls /= << >>
  /\ th[t].calls[1].name = "socket"
  /\ th[t].calls[1].ret = 0

\* The unlink before the bind failed with an error other than ENOENT.
StaleUnlinkFailed(c) ==
  /\ Len(c) >= 2
  /\ c[2].name = "unlink" /\ c[2].ret /= 0 /\ c[2].errno /= "ENOENT"

DgramSteps ==
  << "socket", "unlink", "bind", "chmod", "connect", "send", "recv" >>

\* A step reported an error (for unlink, an error other than ENOENT).
StepFailed(x) == x.ret < 0 /\ ~(x.name = "unlink" /\ x.errno = "ENOENT")

RECURSIVE UpToClose(_)
\* The calls among c before the first close.
UpToClose(c) ==
  IF c = << >> \/ c[1].name = "close" THEN << >>
  ELSE << c[1] >> \o UpToClose(Tail(c))

\* Thread t is in powerdns_get_data_dgram, or has just returned from it.
InDgram(t) ==
  \/ th[t].pc \in {"dg_socket", "dg_unlink", "dg_bind", "dg_chmod", "dg_connect",
                   "dg_send", "dg_recv", "dg_close", "dg_cleanup"}
  \/ Returned(t, SOCK_DGRAM)

\* C5: powerdns_get_data_dgram runs socket, unlink, bind, chmod, connect,
\* send, recv in this order; after a step that reports an error no later step
\* is attempted, -1 is returned and the caller gets no buffer.
C5_DgramStopsAtFirstError ==
  \A t \in Threads :
    InDgram(t)
    => LET b == UpToClose(th[t].calls)
       IN  /\ Len(b) <= Len(DgramSteps)
           /\ \A i \in 1 .. Len(b) :
                /\ b[i].name = DgramSteps[i]
                /\ i < Len(b) => ~StepFailed(b[i])
           /\ ( /\ th[t].pc = "returned"
                /\ b /= << >>
                /\ StepFailed(b[Len(b)]) )
              => /\ th[t].cstatus = -1
                 /\ th[t].cbuffer = NULL
                 /\ th[t].cbuffer_size = 0

\* A connect has failed after four good steps, and -1 has been returned.
C5_Witness ==
  \E t \in Threads :
    /\ Returned(t, SOCK_DGRAM)
    /\ Len(UpToClose(th[t].calls)) = 5
    /\ Got(th[t].calls, "connect", -1)
    /\ th[t].cstatus = -1

\* C6: when a recv of powerdns_get_data_stream fails, after any number of
\* chunks, it returns a failure, the buffer is freed and the caller's buffer
\* and size stay unset; powerdns_read_server then returns -1 and submits
\* nothing.
C6_StreamRecvErrorFreesBuffer ==
  \A t \in Threads :
    /\ (Returned(t, SOCK_STREAM) /\ Got(th[t].calls, "recv", -1))
       => /\ th[t].cstatus < 0
          /\ th[t].cbuffer = NULL
          /\ th[t].cbuffer_size = 0
          /\ th[t].heap = 0
    /\ ( /\ th[t].pc \in {"read", "idle"}
         /\ th[t].polled /= << >>
         /\ Cur(t).socktype = SOCK_STREAM
         /\ Got(th[t].calls, "recv", -1) )
       => /\ th[t].rets[Len(th[t].rets)] = -1
          /\ th[t].submitted = << >>

\* A recv has failed after a chunk, and the failure has been returned.
C6_Witness ==
  \E t \in Threads :
    /\ Returned(t, SOCK_STREAM)
    /\ Got(th[t].calls, "recv", -1)
    /\ Len(Chunks(th[t].calls)) = 1
    /\ th[t].cstatus = -1

\* Thread t has bound the local path and not yet unlinked it after its close.
HoldsPath(t) ==
  /\ th[t].pc \in {"dg_chmod", "dg_connect", "dg_send", "dg_recv", "dg_close",
                   "dg_cleanup"}
  /\ Got(th[t].calls, "bind", 0)

\* C7: at most one powerdns_get_data_dgram is in flight at any time, and
\* while an invocation is between its bind and its last unlink the file at
\* the local bind path is the one it bound: no other invocation has unlinked
\* or rebound it.
C7_OneDatagramInFlight ==
  /\ Cardinality({ t \in Threads : InDgram(t) /\ th[t].pc /= "returned" }) <= 1
  /\ \A t \in Threads : HoldsPath(t) => sockfile = t

\* C8: a cycle of powerdns_read, run by thread 1, calls the collection
\* function of every target once, in the order of the list; whatever one
\* returns, the next target is polled; when the cycle is over, every target
\* has been polled.
C8_CyclePollsEveryTarget ==
  LET r == th[1]
  IN  /\ \A i \in 1 .. Len(r.polled) : r.polled[i] = i
      /\ r.pc = "read" => r.e = Len(r.polled) + 1 /\ Len(r.rets) = Len(r.polled)
      /\ (phase /= "config" /\ r.pc \in {"idle", "crashed"})
         => r.polled = [i \in 1 .. Len(list) |-> i]

\* The characters of C string b, which holds no NUL but the last.
Content(b) == SubSeq(b, 1, Len(b) - 1)

\* The tokens of s, the maximal runs of characters not in D, in order.
Tokens(s, D) ==
  LET starts == { i \in 1 .. Len(s) : s[i] \notin D /\ (i = 1 \/ s[i - 1] \in D) }
      End(i) == CHOOSE j \in i .. Len(s) :
                  /\ \A k \in i .. j : s[k] \notin D
                  /\ j = Len(s) \/ s[j + 1] \in D
      Nth(n) == CHOOSE i \in starts : Cardinality({ j \in starts : j < i }) = n - 1
  IN  [n \in 1 .. Cardinality(starts) |-> SubSeq(s, Nth(n), End(Nth(n)))]

\* The pairs the positional decoder is to submit for a command and a reply.
PositionalPairs(instance, command, reply) ==
  LET words == Tokens(Content(command), {" ", "\t"})
      names == IF words = << >> THEN << >> ELSE Tail(words)
      values == Tokens(Content(reply), {" ", "\t", "\n", "\r"})
  IN  [n \in 1 .. Min(Len(names), Len(values)) |->
         [plugin_instance |-> instance, pdns_type |-> names[n],
          value |-> values[n]]]

\* C9: powerdns_read_recursor drops the first token of the command and
\* submits (Nth remaining command token, Nth reply token) for N = 1 to the
\* smaller of the two numbers of tokens, in this order, and returns 0; the
\* command is split at blanks and tabs, the reply at blanks, tabs, newlines
\* and carriage returns.  When the strdup of the command fails it returns -1
\* and submits nothing.
C9_PositionalDecoderPairsByPosition ==
  \A t \in Threads :
    ( /\ th[t].pc = "read"
      /\ th[t].polled /= << >>
      /\ Cur(t).func = "powerdns_read_recursor"
      /\ th[t].reply /= NULL )
    => IF Got(th[t].calls, "strdup", -1)
       THEN /\ th[t].rets[Len(th[t].rets)] = -1
            /\ th[t].submitted = << >>
       ELSE /\ th[t].rets[Len(th[t].rets)] = 0
            /\ th[t].submitted =
                 PositionalPairs(Cur(t).instance, Cur(t).command, th[t].reply)

\* Command "get x y" and the reply "1": the decoder has submitted (x, 1) and
\* stopped, the reply being the shorter.
C9_Witness ==
  \E t \in Threads :
    /\ th[t].pc = "read"
    /\ th[t].polled /= << >>
    /\ Cur(t).command = CommandXY
    /\ th[t].reply = << "1", NUL >>
    /\ th[t].rets = << 0 >>
    /\ th[t].submitted = << [plugin_instance |-> InstanceA,
                             pdns_type |-> << "x" >>, value |-> << "1" >>] >>

\* The fields of s, the runs of characters between its commas, empty ones
\* too, in order.
Fields(s) ==
  LET commas == { i \in 1 .. Len(s) : s[i] = "," }
      cuts == {0} \cup commas \cup {Len(s) + 1}
      Nth(n) == CHOOSE i \in cuts : Cardinality({ j \in cuts : j < i }) = n - 1
  IN  [n \in 1 .. Cardinality(cuts) - 1 |-> SubSeq(s, Nth(n) + 1, Nth(n + 1) - 1)]

\* The place of the first "=" in field f, 0 when it has none.
FirstEq(f) ==
  IF \E i \in 1 .. Len(f) : f[i] = "="
  THEN CHOOSE i \in 1 .. Len(f) : f[i] = "=" /\ \A j \in 1 .. i - 1 : f[j] /= "="
  ELSE 0

\* The name=value tokens of s, one trailing comma dropped.
PairTokens(s) ==
  LET f == Fields(s)
  IN  IF Len(f) > 1 /\ f[Len(f)] = << >> THEN SubSeq(f, 1, Len(f) - 1) ELSE f

\* s is made of name=value tokens with non-empty values, separated by commas,
\* with or without one trailing comma.
ValidCommaPairs(s) ==
  \A i \in 1 .. Len(PairTokens(s)) :
    LET f == PairTokens(s)[i]
    IN  FirstEq(f) > 0 /\ FirstEq(f) < Len(f)

\* One pair per token, each token split at its first "=".
CommaPairs(instance, s) ==
  [n \in 1 .. Len(PairTokens(s)) |->
     LET f == PairTokens(s)[n]
     IN  [plugin_instance |-> instance,
          pdns_type |-> SubSeq(f, 1, FirstEq(f) - 1),
          value |-> SubSeq(f, FirstEq(f) + 1, Len(f))]]

\* C10: for a buffer of comma-separated name=value tokens with non-empty
\* values, with or without one trailing comma, powerdns_read_server submits
\* exactly one pair per token, in order, each token split at its first "=",
\* and returns 0.
C10_CommaPairDecoderSubmitsEveryToken ==
  \A t \in Threads :
    ( /\ th[t].pc = "read"
      /\ th[t].polled /= << >>
      /\ Cur(t).func = "powerdns_read_server"
      /\ th[t].reply /= NULL
      /\ ValidCommaPairs(Content(th[t].reply)) )
    => /\ th[t].rets[Len(th[t].rets)] = 0
       /\ th[t].submitted = CommaPairs(Cur(t).instance, Content(th[t].reply))

\* The buffer "a=a,a=a,": the decoder has submitted (a, a) twice, and nothing
\* for the trailing comma.
C10_Witness ==
  \E t \in Threads :
    /\ th[t].pc = "read"
    /\ th[t].reply = << "a", "=", "a", ",", "a", "=", "a", ",", NUL >>
    /\ th[t].rets = << 0 >>
    /\ Len(th[t].submitted) = 2
    /\ th[t].submitted[2].pdns_type = << "a" >>
    /\ th[t].submitted[2].value = << "a" >>

\* Thread t has come back from powerdns_read_server with a reply buffer.
ServerDecoded(t) ==
  /\ th[t].pc = "read"
  /\ th[t].polled /= << >>
  /\ Cur(t).func = "powerdns_read_server"
  /\ th[t].reply /= NULL

\* The tokens of reply buffer b: the non-empty runs between its commas.
ServerTokens(b) == Tokens(Content(b), {","})

\* The place among tokens k of the first one without "=", Len(k) + 1 when
\* all have one.
FirstBare(k) ==
  IF \E i \in 1 .. Len(k) : FirstEq(k[i]) = 0
  THEN CHOOSE i \in 1 .. Len(k) :
         FirstEq(k[i]) = 0 /\ \A j \in 1 .. i - 1 : FirstEq(k[j]) /= 0
  ELSE Len(k) + 1

\* Token f, which holds "=", as the pair it stands for.
PairOf(instance, f) ==
  [plugin_instance |-> instance,
   pdns_type |-> SubSeq(f, 1, FirstEq(f) - 1),
   value |-> SubSeq(f, FirstEq(f) + 1, Len(f))]

RECURSIVE PairsOf(_, _)
\* The pairs of tokens k, all holding "=", that have a value, in order.
PairsOf(instance, k) ==
  IF k = << >> THEN << >>
  ELSE IF FirstEq(k[1]) = Len(k[1]) THEN PairsOf(instance, Tail(k))
  ELSE << PairOf(instance, k[1]) >> \o PairsOf(instance, Tail(k))

\* C11: when a token of the reply holds no "=", powerdns_read_server has
\* submitted the pairs of the tokens before the first such token, nothing for
\* it or for any token after it, and has returned 0.
C11_BareTokenEndsDecoding ==
  \A t \in Threads :
    LET k == ServerTokens(th[t].reply)
    IN  (ServerDecoded(t) /\ FirstBare(k) <= Len(k))
        => /\ th[t].rets[Len(th[t].rets)] = 0
           /\ th[t].submitted =
                PairsOf(Cur(t).instance, SubSeq(k, 1, FirstBare(k) - 1))

\* The buffer "a=a,a,=a": the decoder has submitted (a, a) and stopped at the
\* token "a", so that ("", a) has not been submitted.
C11_Witness ==
  \E t \in Threads :
    /\ ServerDecoded(t)
    /\ th[t].reply = << "a", "=", "a", ",", "a", ",", "=", "a", NUL >>
    /\ th[t].rets = << 0 >>
    /\ th[t].submitted = << [plugin_instance |-> InstanceA,
                             pdns_type |-> << "a" >>, value |-> << "a" >>] >>

\* C12: when every token of the reply holds "=", powerdns_read_server has
\* submitted nothing for the tokens whose value is empty and the pair of
\* every other token, in order: the tokens after an empty value are decoded.
C12_EmptyValueIsSkipped ==
  \A t \in Threads :
    LET k == ServerTokens(th[t].reply)
    IN  (ServerDecoded(t) /\ FirstBare(k) > Len(k))
        => /\ \A i \in 1 .. Len(th[t].submitted) :
                th[t].submitted[i].value /= << >>
           /\ th[t].submitted = PairsOf(Cur(t).instance, k)

\* The buffer "a=,aa=a": the decoder has submitted nothing for "a=" and then
\* (aa, a).
C12_Witness ==
  \E t \in Threads :
    /\ ServerDecoded(t)
    /\ th[t].reply = << "a", "=", ",", "a", "a", "=", "a", NUL >>
    /\ th[t].submitted = << [plugin_instance |-> InstanceA,
                             pdns_type |-> << "a", "a" >>,
                             value |-> << "a" >>] >>

\* C13: once a LocalSocket option has been read, which in this configuration
\* names the path "/p", every bind and unlink of powerdns_get_data_dgram is on
\* that path; without the option they are on the compiled-in path.
C13_LocalSocketOverridesBindPath ==
  \A t \in Threads :
    \A i \in 1 .. Len(th[t].calls) :
      th[t].calls[i].name \in {"bind", "unlink"}
      => th[t].calls[i].arg =
           sstrncpy(IF local_sockpath /= NULL THEN LocalP ELSE PDNS_LOCAL_SOCKPATH,
                    UNIX_PATH_MAX)

\* Some entry of lookup_table has the name n.
InTable(n) ==
  \E i \in 1 .. Len(lookup_table) : Content(lookup_table[i].name) = n

\* The first entry of lookup_table with the name n.
FirstEntry(n) ==
  lookup_table[CHOOSE i \in 1 .. Len(lookup_table) :
                 /\ Content(lookup_table[i].name) = n
                 /\ \A j \in 1 .. i - 1 : Content(lookup_table[j].name) /= n]

\* Thread t has come back from a collection function that decoded a reply.
Decoded(t) ==
  /\ th[t].pc = "read"
  /\ th[t].polled /= << >>
  /\ th[t].reply /= NULL
  /\ Len(th[t].effects) = Len(th[t].submitted)

\* C14: a call of submit with a name that no entry of lookup_table has calls
\* neither plugin_get_ds nor plugin_dispatch_values.
C14_UnknownNameIsNoOp ==
  \A t \in Threads :
    \A n \in 1 .. Len(th[t].submitted) :
      ~InTable(th[t].submitted[n].pdns_type)
      => /\ n <= Len(th[t].effects)
         /\ th[t].effects[n].get_ds = << >>
         /\ th[t].effects[n].dispatch = << >>

\* The reply "question=1": submit has been called with the name "question",
\* which the table does not hold, and a value that is a number, and has
\* called nothing.
C14_Witness ==
  \E t \in Threads :
    /\ Decoded(t)
    /\ th[t].submitted =
         << [plugin_instance |-> InstanceA,
             pdns_type |-> << "q", "u", "e", "s", "t", "i", "o", "n" >>,
             value |-> << "1" >>] >>
    /\ th[t].effects[1].get_ds = << >>
    /\ th[t].effects[1].dispatch = << >>

\* The characters of v after the white space and the sign a number may start
\* with.
AfterSign(v) ==
  LET Lead(i) == \A j \in 1 .. i : v[j] \in IsSpace
      s == CHOOSE i \in 0 .. Len(v) :
             Lead(i) /\ (i = Len(v) \/ v[i + 1] \notin IsSpace)
      w == SubSeq(v, s + 1, Len(v))
  IN  IF w /= << >> /\ w[1] \in {"+", "-"} THEN Tail(w) ELSE w

IsDigit(c) == c \in {"0", "1", "2", "3", "4", "5", "6", "7", "8", "9"}

\* No prefix of v, which holds no letter, is a number of the kind data source
\* type ty asks for.
NotANumber(v, ty) ==
  LET w == AfterSign(v)
  IN  ~ \/ w /= << >> /\ IsDigit(w[1])
        \/ ty = DS_TYPE_GAUGE /\ Len(w) >= 2 /\ w[1] = "." /\ IsDigit(w[2])

\* The call n of submit by thread t got a data set with one data source from
\* plugin_get_ds.
GotSchema(t, n) ==
  /\ th[t].effects[n].get_ds /= << >>
  /\ th[t].effects[n].get_ds[1].ret /= NULL
  /\ th[t].effects[n].get_ds[1].ret.ds_num = 1

\* C15: a call of submit with a name of the table and a value of which no
\* prefix is a number of the type the data set asks for does not call
\* plugin_dispatch_values; powerdns_read_server still calls submit for every
\* token with a value, and the calls with a value that is a number dispatch.
C15_UnparseableValueDropsOnePair ==
  \A t \in Threads :
    (Decoded(t) /\ Cur(t).func = "powerdns_read_server")
    => LET k == ServerTokens(th[t].reply)
           s == th[t].submitted
           e == th[t].effects
       IN  /\ s = PairsOf(Cur(t).instance, SubSeq(k, 1, FirstBare(k) - 1))
           /\ \A n \in 1 .. Len(s) :
                (InTable(s[n].pdns_type) /\ GotSchema(t, n))
                => (e[n].dispatch = << >>
                    <=> NotANumber(s[n].value, e[n].get_ds[1].ret.type))

\* The reply "latency=/,questions=1" with data sets of one gauge: nothing has
\* been dispatched for latency, and questions has been dispatched after it.
C15_Witness ==
  \E t \in Threads :
    /\ Decoded(t)
    /\ Cur(t).func = "powerdns_read_server"
    /\ Len(th[t].submitted) = 2
    /\ th[t].submitted[1].pdns_type = Latency
    /\ th[t].submitted[1].value = << "/" >>
    /\ GotSchema(t, 1)
    /\ th[t].effects[1].get_ds[1].ret.type = DS_TYPE_GAUGE
    /\ th[t].effects[1].dispatch = << >>
    /\ th[t].submitted[2].pdns_type = Questions
    /\ Len(th[t].effects[2].dispatch) = 1

\* v is a number written in decimal digits, without sign or leading zero.
PlainDecimal(v) ==
  /\ v /= << >>
  /\ \A i \in 1 .. Len(v) : IsDigit(v[i])
  /\ Len(v) > 1 => v[1] /= "0"

\* C16: a call of submit with a name of the table calls plugin_get_ds once,
\* with the type of the first entry of that name; when the answer is a data
\* set with one data source and the value starts with a number, it calls
\* plugin_dispatch_values once, with the type and the type instance of that
\* entry (none when the entry has none), the instance of the target as plugin
\* instance and one value, which for a plain decimal is that number.
C16_DispatchesFirstMatch ==
  \A t \in Threads :
    Decoded(t)
    => \A n \in 1 .. Len(th[t].submitted) :
         LET c == th[t].submitted[n]
             e == th[t].effects[n]
             entry == FirstEntry(c.pdns_type)
         IN  InTable(c.pdns_type)
             => /\ Len(e.get_ds) = 1
                /\ e.get_ds[1].arg = entry.type
                /\ ( /\ GotSchema(t, n)
                     /\ ~NotANumber(c.value, e.get_ds[1].ret.type) )
                   => /\ Len(e.dispatch) = 1
                      /\ e.dispatch[1].type = entry.type
                      /\ e.dispatch[1].type_instance =
                           (IF entry.type_instance = NULL THEN << NUL >>
                            ELSE entry.type_instance)
                      /\ e.dispatch[1].plugin_instance = Cur(t).instance
                      /\ Len(e.dispatch[1].values) = 1
                      /\ PlainDecimal(c.value)
                         => e.dispatch[1].values[1] =
                              (IF e.get_ds[1].ret.type = DS_TYPE_GAUGE
                               THEN [neg |-> FALSE, scale |-> 0,
                                     mant |-> Number(c.value, 10)]
                               ELSE Number(c.value, 10))

\* The reply "questions=10" with a data set of one counter: dns_qtype has been
\* dispatched with the type instance total and the value 10.
C16_Witness ==
  \E t \in Threads :
    /\ Decoded(t)
    /\ Len(th[t].submitted) = 1
    /\ th[t].submitted[1].pdns_type = Questions
    /\ th[t].submitted[1].value = << "1", "0" >>
    /\ th[t].effects[1].get_ds[1].ret = [ds_num |-> 1, type |-> DS_TYPE_COUNTER]
    /\ th[t].effects[1].dispatch =
         << [type |-> << "d", "n", "s", "_", "q", "t", "y", "p", "e", NUL >>,
             values |-> << 10 >>,
             plugin |-> "powerdns",
             type_instance |-> << "t", "o", "t", "a", "l", NUL >>,
             plugin_instance |-> InstanceA] >>

\* Option o has exactly one argument, a string.
OneStringArg(o) ==
  Len(o.values) = 1 /\ o.values[1].type = "OCONFIG_TYPE_STRING"

\* Block b is a Server or Recursor block with an instance and nothing among
\* its options but Command and Socket with one string each.
GoodBlock(b) ==
  /\ b.key \in {"Server", "Recursor"}
  /\ OneStringArg(b)
  /\ \A i \in 1 .. Len(b.children) :
       b.children[i].key \in {"Command", "Socket"} /\ OneStringArg(b.children[i])

\* The string of the last option key of good block b, d when it has none.
OptionOr(b, key, d) ==
  LET at == { i \in 1 .. Len(b.children) : b.children[i].key = key }
  IN  IF at = {} THEN d
      ELSE b.children[CHOOSE i \in at : \A j \in at : j <= i].values[1].string

\* The target good block b asks for.
TargetOf(b) ==
  IF b.key = "Server"
  THEN [func |-> "powerdns_read_server", instance |-> b.values[1].string,
        command |-> OptionOr(b, "Command", SERVER_COMMAND),
        sockaddr |-> OptionOr(b, "Socket", SERVER_SOCKET),
        socktype |-> SOCK_STREAM]
  ELSE [func |-> "powerdns_read_recursor", instance |-> b.values[1].string,
        command |-> OptionOr(b, "Command", RECURSOR_COMMAND),
        sockaddr |-> OptionOr(b, "Socket", RECURSOR_SOCKET),
        socktype |-> SOCK_DGRAM]

\* Good block b has its item, its command and its socket path when the
\* allocation a fails: a default that could not be copied is made up for by
\* an option of the block.
Allocated(b, a) ==
  /\ a /= "item"
  /\ a = "command" => \E i \in 1 .. Len(b.children) : b.children[i].key = "Command"
  /\ a = "socket_temp" => \E i \in 1 .. Len(b.children) : b.children[i].key = "Socket"

RECURSIVE TargetsOf(_, _, _)
\* The targets of the good blocks among the children c from i on, but for
\* those at which an allocation fails, up to a LocalSocket option at which
\* one does.
TargetsOf(c, i, nomem) ==
  IF i > Len(c) THEN << >>
  ELSE IF c[i].key = "LocalSocket" /\ i \in DOMAIN nomem THEN << >>
  ELSE IF GoodBlock(c[i]) /\ Allocated(c[i], Fails(nomem, i))
  THEN << TargetOf(c[i]) >> \o TargetsOf(c, i + 1, nomem)
  ELSE TargetsOf(c, i + 1, nomem)

\* C17: after powerdns_config the list holds the targets of the good Server
\* and Recursor blocks, in order, and none for a block with an option that is
\* not Command or Socket, or with a Command or Socket that has not exactly
\* one string: such a block is left out, the blocks before and after it are
\* added.
C17_BadBlockAbortsOnlyItself ==
  conf.done => list = TargetsOf(conf.ci, 1, conf.nomem)

\* The blocks Server, Recursor with a Command and an option Bogus, Recursor
\* with a Command: the first and the third are on the list.
C17_Witness ==
  /\ conf.done
  /\ DOMAIN conf.nomem = {}
  /\ Len(conf.ci) = 3
  /\ conf.ci[1] = Item("Server", OneString(InstanceA), << >>)
  /\ conf.ci[2].key = "Recursor"
  /\ Len(conf.ci[2].children) = 2
  /\ conf.ci[2].children[2].key = "Bogus"
  /\ conf.ci[3] = Item("Recursor", OneString(InstanceA),
                       << Item("Command", OneString(CommandXY), << >>) >>)
  /\ list = << ServerItem, RecursorItem(CommandXY) >>

\* C18: when powerdns_read_recursor has decoded a reply, the command that
\* powerdns_get_data_dgram sent in the same invocation is the command of the
\* target, keys_list is a copy of that very string, and the names submitted
\* are its tokens after the first, paired with the values of the reply.
C18_NamesComeFromSentCommand ==
  \A t \in Threads :
    ( /\ th[t].pc = "read"
      /\ th[t].polled /= << >>
      /\ Cur(t).func = "powerdns_read_recursor"
      /\ Got(th[t].calls, "strdup", 0) )
    => LET sent == Named(th[t].calls, "send")
           copy == Named(th[t].calls, "strdup")
       IN  /\ Len(sent) = 1
           /\ sent[1].arg = Content(Cur(t).command)
           /\ Len(copy) = 1
           /\ copy[1].arg = CString(sent[1].arg)
           /\ th[t].submitted =
                PositionalPairs(Cur(t).instance, CString(sent[1].arg),
                                th[t].reply)

\* A Recursor target with the Command "get x y": this command has been sent,
\* and copied for the decoder.
C18_Witness ==
  \E t \in Threads :
    /\ th[t].pc = "read"
    /\ th[t].polled /= << >>
    /\ Cur(t).func = "powerdns_read_recursor"
    /\ Cur(t).command = CommandXY
    /\ Got(th[t].calls, "send", 7)
    /\ Named(th[t].calls, "send")[1].arg = Content(CommandXY)
    /\ Got(th[t].calls, "strdup", 0)
    /\ Named(th[t].calls, "strdup")[1].arg = CommandXY

\* Thread t is in powerdns_get_data_dgram or powerdns_get_data_stream.
InTransport(t) ==
  th[t].pc \in {"dg_socket", "dg_unlink", "dg_bind", "dg_chmod", "dg_connect",
                "dg_send", "dg_recv", "dg_close", "dg_cleanup",
                "st_socket", "st_connect", "st_send", "st_recv", "st_close"}

\* C19: an invocation of powerdns_get_data_dgram or powerdns_get_data_stream
\* holds at most one socket; once it has returned, by whatever path, it has
\* called close once when socket gave it one and never otherwise, and no
\* socket is open; none is open between the cycles.
C19_SocketClosedExactlyOnce ==
  \A t \in Threads :
    /\ th[t].open \in {0, 1}
    /\ ~InTransport(t)
       => /\ th[t].open = 0
          /\ Len(Named(th[t].calls, "close")) =
               (IF Got(th[t].calls, "socket", 0) THEN 1 ELSE 0)
          /\ Len(Named(th[t].calls, "socket")) <= 1

\* A stream invocation whose connect failed has returned, after one close.
C19_Witness ==
  \E t \in Threads :
    /\ Returned(t, SOCK_STREAM)
    /\ Got(th[t].calls, "socket", 0)
    /\ Got(th[t].calls, "connect", -1)
    /\ Len(Named(th[t].calls, "close")) = 1
    /\ th[t].open = 0

\* C20: no step of a collection cycle, in powerdns_get_data or in a collection
\* function, whether it succeeds or fails, changes the instance, the command,
\* the socket address or the socket type of a target: the list is what the
\* configuration left.
C20_CollectionLeavesTargetsUnchanged ==
  [][(phase /= "config" \/ phase' /= "config") => list' = list]_vars

\* A Recursor target with the Command "get x y" has been polled with success,
\* the command has been tokenized, and the target still has this command.
C20_Witness ==
  \E t \in Threads :
    /\ th[t].pc = "idle"
    /\ th[t].polled = << 1 >>
    /\ th[t].rets = << 0 >>
    /\ Got(th[t].calls, "strdup", 0)
    /\ list = << RecursorItem(CommandXY) >>

\* Every field of the item it is set, and its function goes with its socket
\* type.
WellFormed(it) ==
  /\ it.instance /= NULL
  /\ it.command /= NULL
  /\ it.sockaddr /= NULL
  /\ \/ it.func = "powerdns_read_server" /\ it.socktype = SOCK_STREAM
     \/ it.func = "powerdns_read_recursor" /\ it.socktype = SOCK_DGRAM

\* C21: whatever blocks powerdns_config has been called with, and whichever
\* allocation has failed, every target on the list has an instance, a command
\* and a socket path, and either powerdns_read_server with SOCK_STREAM or
\* powerdns_read_recursor with SOCK_DGRAM.
C21_TargetsAreWellFormed ==
  \A i \in 1 .. Len(list) : WellFormed(list[i])

\* powerdns_config has returned; the default command of the first block, a
\* Recursor, could not be copied and its option Command has set one, and the
\* list holds this target and a Server.
C21_Witness ==
  /\ conf.done
  /\ Fails(conf.nomem, 1) = "command"
  /\ Len(list) = 2
  /\ list[1] = RecursorItem(CommandXY)
  /\ list[2].func = "powerdns_read_server"
  /\ list[2].socktype = SOCK_STREAM

\* C22: every entry of lookup_table that a call of submit reads, in the loop
\* or after it, is one of the entries 0 .. lookup_table_length - 1, also for
\* a name that the table does not hold.
C22_LookupReadsInBounds ==
  \A t \in Threads :
    \A n \in 1 .. Len(th[t].effects) :
      \A i \in th[t].effects[n].reads : 0 <= i /\ i < lookup_table_length

====
